---- MODULE Spec2Model ----
(***************************************************************************)
(* Statement execution and result materialisation of worker.opteryx.app:   *)
(* app/worker.py process_statement, with the ledger (Firestore jobs         *)
(* collection), the query engine (opteryx cursor) and the object store     *)
(* (GCS) as collaborators that may fail at every call.                      *)
(***************************************************************************)
EXTENDS Integers, Sequences, FiniteSets, TLC

\* ------------------------------------------------------------------ bounds
MaxBatches == 3   \* batches one engine stream emits at most
MaxExecs == 2     \* calls of process_statement in one behaviour

\* ------------------------------------------------------- program constants
SIZE_THRESHOLD_BYTES == 256 * 1024 * 1024

Bucket == "opteryx_results"

SERVER_TIMESTAMP == "SERVER_TIMESTAMP"

\* ------------------------------------------------------------- environment
Procs == {1, 2}

\* Job handles: h1 and h2 are queued jobs with a query, h3 has an empty
\* sql_text, h4 has no sql_text field, h5 has no ledger record.
Handles == {"h1", "h2", "h3", "h4", "h5"}

InitialLedger ==
    [h \in {"h1", "h2", "h3", "h4"} |->
        CASE h = "h1" -> [sql_text |-> "SELECT 1", status |-> "QUEUED"]
          [] h = "h2" -> [sql_text |-> "SELECT 2", status |-> "QUEUED"]
          [] h = "h3" -> [sql_text |-> "", status |-> "QUEUED"]
          [] h = "h4" -> [status |-> "QUEUED"]]

\* A record batch: its row count and, per column, the buffers of the column's
\* array; a buffer is <<>> (None) or <<size>>.  A null-typed column (kind n)
\* has a single buffer, None, whatever its length.
HalfThreshold == SIZE_THRESHOLD_BYTES \div 2

BatchKinds ==
    { [id |-> "e", num_rows |-> 0, columns |-> << << <<>>, <<0>> >> >>],
      [id |-> "n", num_rows |-> 1, columns |-> << << <<>> >> >>],
      [id |-> "t", num_rows |-> 2, columns |-> << << <<>>, <<16>> >> >>],
      [id |-> "s", num_rows |-> 1, columns |-> << << <<8>>, <<HalfThreshold - 8>> >> >>],
      [id |-> "b", num_rows |-> 3, columns |-> << << <<>>, <<SIZE_THRESHOLD_BYTES + 16>> >> >>] }

\* the buffer layout of a batch's columns; the batches of one result share
\* one schema, and so one layout
Layout(b) == [j \in 1..Len(b.columns) |-> Len(b.columns[j])]

SameSchema(emitted, b) ==
    IF emitted = <<>> THEN TRUE ELSE Layout(emitted[1]) = Layout(b)

Columns == << [name |-> "id", type |-> "INTEGER"] >>

Telemetry == [engine |-> "telemetry"]

\* Exceptions the collaborators raise.
NoExc == [type |-> "", msg |-> ""]
EngineError == [type |-> "EngineError", msg |-> "engine failure"]
WriteError(path) == [type |-> "WriteError", msg |-> "write failure", path |-> path]
LedgerError(site) == [type |-> "LedgerError", msg |-> "ledger failure", site |-> site]
AuditError == [type |-> "AuditError", msg |-> "audit failure"]

\* ValueError(f"No job found for handle: {statement_handle}") (115)
NoJobFound(statement_handle) ==
    [type |-> "ValueError", msg |-> "No job found for handle: " \o statement_handle]

\* str(exc): the message the exception was made with
Str(exc) == exc.msg

\* --------------------------------------------------------- pure functions
RECURSIVE SumBuffers(_)
SumBuffers(bufs) ==
    IF bufs = <<>> THEN 0
    ELSE (IF Head(bufs) # <<>> THEN Head(bufs)[1] ELSE 0) + SumBuffers(Tail(bufs))

\* the buffers of column j over the chunks (one chunk per batch) of the table
RECURSIVE SumChunks(_, _)
SumChunks(batches, j) ==
    IF batches = <<>> THEN 0
    ELSE SumBuffers(Head(batches).columns[j]) + SumChunks(Tail(batches), j)

RECURSIVE SumColumns(_, _)
SumColumns(batches, j) ==
    IF j = 0 THEN 0
    ELSE SumColumns(batches, j - 1) + SumChunks(batches, j)

\* _estimate_table_bytes(pa.Table.from_batches(batches))
_estimate_table_bytes(batches) ==
    IF batches = <<>> THEN 0
    ELSE SumColumns(batches, Len(batches[1].columns))

RECURSIVE SumRows(_)
SumRows(parts) ==
    IF parts = <<>> THEN 0 ELSE Head(parts).rows + SumRows(Tail(parts))

\* f"{i:04d}": the decimal digits of i, left-padded with zeros to width 4
RECURSIVE Digits(_)
Digits(i) == IF i < 10 THEN <<i>> ELSE Append(Digits(i \div 10), i % 10)

RECURSIVE ZeroPad(_, _)
ZeroPad(ds, width) == IF Len(ds) >= width THEN ds ELSE ZeroPad(<<0>> \o ds, width)

\* mutant: the index is not padded
PartNameNoPad(part_index) == <<"part_", Digits(part_index), ".parquet">>

PartName(part_index) == <<"part_", ZeroPad(Digits(part_index), 4), ".parquet">>

GcsPath(bucket, statement_handle, name) == <<"gs://", bucket, statement_handle, name>>

ManifestName == <<"manifest.json">>

\* mutant: a buffer of exactly the threshold is not flushed
ShouldFlushStrict(buffered_bytes) == buffered_bytes > SIZE_THRESHOLD_BYTES

\* mutant: the threshold taken as 256 KiB
ShouldFlushKiB(buffered_bytes) == buffered_bytes >= 256 * 1024

\* `if buffered_bytes >= SIZE_THRESHOLD_BYTES`
ShouldFlush(buffered_bytes) == buffered_bytes >= SIZE_THRESHOLD_BYTES

\* `if not sql`: None and "" are falsy
Falsy(sql) == sql = <<>> \/ sql[1] = ""

\* job.get(key): <<>> for None
DictGet(job, key) == IF key \in DOMAIN job THEN <<job[key]>> ELSE <<>>

\* doc_ref.update(payload): merge, only the supplied fields change
Merge(doc, payload) ==
    [k \in DOMAIN doc \cup DOMAIN payload |->
        IF k \in DOMAIN payload THEN payload[k] ELSE doc[k]]

\* mutant: no `doc.exists` check, a missing document read as an empty job
JobBranchNoExists(ldg, statement_handle) ==
    IF statement_handle \notin DOMAIN ldg THEN "missing_sql"
    ELSE IF Falsy(DictGet(ldg[statement_handle], "sql_text")) THEN "missing_sql"
    ELSE "execute"

\* mutant: `if sql is None` in place of `if not sql`
JobBranchNoneOnly(ldg, statement_handle) ==
    IF statement_handle \notin DOMAIN ldg THEN "not_found"
    ELSE IF DictGet(ldg[statement_handle], "sql_text") = <<>> THEN "missing_sql"
    ELSE "execute"

\* mutant: a job whose status is already terminal is not executed again
JobBranchSkipTerminal(ldg, statement_handle) ==
    IF statement_handle \notin DOMAIN ldg THEN "not_found"
    ELSE IF ldg[statement_handle].status \in {"COMPLETED", "FAILED"} THEN "not_found"
    ELSE IF Falsy(DictGet(ldg[statement_handle], "sql_text")) THEN "missing_sql"
    ELSE "execute"

\* which way process_statement goes after doc_ref.get()
JobBranch(ldg, statement_handle) ==
    IF statement_handle \notin DOMAIN ldg THEN "not_found"
    ELSE IF Falsy(DictGet(ldg[statement_handle], "sql_text")) THEN "missing_sql"
    ELSE "execute"

MissingSqlPayload ==
    [status |-> "FAILED", error |-> "missing sql_text",
     updated_at |-> SERVER_TIMESTAMP, finished_at |-> SERVER_TIMESTAMP]

ExecutingPayload ==
    [status |-> "EXECUTING", updated_at |-> SERVER_TIMESTAMP,
     started_at |-> SERVER_TIMESTAMP]

FailedPayload(exc) ==
    [status |-> "FAILED", error |-> Str(exc),
     updated_at |-> SERVER_TIMESTAMP, finished_at |-> SERVER_TIMESTAMP]

\* mutant: the buffered batches are not cleared after a flush
AfterFlushKeepBuffer(f) ==
    [f EXCEPT
        !.parts = Append(@, [name |-> PartName(f.part_index),
                             rows |-> f.buffered_rows,
                             approx_size |-> f.buffered_bytes]),
        !.buffered_rows = 0,
        !.part_index = @ + 1,
        !.total_size_estimate = @ + f.buffered_bytes]

\* mutant: buffered_rows is not reset after a flush
AfterFlushKeepRows(f) ==
    [f EXCEPT
        !.parts = Append(@, [name |-> PartName(f.part_index),
                             rows |-> f.buffered_rows,
                             approx_size |-> f.buffered_bytes]),
        !.buffered_batches = <<>>,
        !.part_index = @ + 1,
        !.total_size_estimate = @ + f.buffered_bytes]

\* mutant: part_index is not incremented after a flush
AfterFlushSameIndex(f) ==
    [f EXCEPT
        !.parts = Append(@, [name |-> PartName(f.part_index),
                             rows |-> f.buffered_rows,
                             approx_size |-> f.buffered_bytes]),
        !.buffered_batches = <<>>,
        !.buffered_rows = 0,
        !.total_size_estimate = @ + f.buffered_bytes]

\* `parts.append(...)` and the reset of the buffers after a flush (169-174)
AfterFlush(f) ==
    [f EXCEPT
        !.parts = Append(@, [name |-> PartName(f.part_index),
                             rows |-> f.buffered_rows,
                             approx_size |-> f.buffered_bytes]),
        !.buffered_batches = <<>>,
        !.buffered_rows = 0,
        !.part_index = @ + 1,
        !.total_size_estimate = @ + f.buffered_bytes]

\* mutant: the final part records the rows of its last batch only
AfterLastPartLastBatchRows(f) ==
    [f EXCEPT
        !.parts = Append(@, [name |-> PartName(f.part_index),
                             rows |-> f.buffered_batches[Len(f.buffered_batches)].num_rows,
                             approx_size |-> _estimate_table_bytes(f.buffered_batches)]),
        !.total_size_estimate = @ + _estimate_table_bytes(f.buffered_batches)]

\* mutant: the final part is left out of total_size_estimate
AfterLastPartNoTotal(f) ==
    [f EXCEPT
        !.parts = Append(@, [name |-> PartName(f.part_index),
                             rows |-> f.buffered_rows,
                             approx_size |-> _estimate_table_bytes(f.buffered_batches)])]

\* the final part's bookkeeping (182-184)
AfterLastPart(f) ==
    [f EXCEPT
        !.parts = Append(@, [name |-> PartName(f.part_index),
                             rows |-> f.buffered_rows,
                             approx_size |-> _estimate_table_bytes(f.buffered_batches)]),
        !.total_size_estimate = @ + _estimate_table_bytes(f.buffered_batches)]

\* the manifest dict (188-209); created_at is the wall clock, left out
BuildManifest(f, bucket) ==
    [parts |-> [i \in 1..Len(f.parts) |->
                    [path |-> GcsPath(bucket, f.statement_handle, f.parts[i].name),
                     rows |-> f.parts[i].rows,
                     approx_size |-> f.parts[i].approx_size]],
     total_parts |-> Len(f.parts),
     total_rows |-> SumRows(f.parts),
     total_size_estimate |-> f.total_size_estimate,
     compression |-> "zstd",
     compression_level |-> 2,
     write_statistics |-> FALSE,
     columns |-> Columns]

\* mutant: total_rows taken from the rows still buffered
CompletedPayloadStaleRows(f, bucket) ==
    [status |-> "COMPLETED",
     updated_at |-> SERVER_TIMESTAMP,
     finished_at |-> SERVER_TIMESTAMP,
     telemetry |-> Telemetry,
     result_manifest |-> GcsPath(bucket, f.statement_handle, ManifestName),
     total_rows |-> f.buffered_rows,
     columns |-> Columns,
     total_size_estimate |-> f.total_size_estimate]

\* mutant: result_manifest built without the handle's prefix
CompletedPayloadWrongPath(f, bucket) ==
    [status |-> "COMPLETED",
     updated_at |-> SERVER_TIMESTAMP,
     finished_at |-> SERVER_TIMESTAMP,
     telemetry |-> Telemetry,
     result_manifest |-> GcsPath(bucket, "", ManifestName),
     total_rows |-> f.total_rows,
     columns |-> Columns,
     total_size_estimate |-> f.total_size_estimate]

CompletedPayload(f, bucket) ==
    [status |-> "COMPLETED",
     updated_at |-> SERVER_TIMESTAMP,
     finished_at |-> SERVER_TIMESTAMP,
     telemetry |-> Telemetry,
     result_manifest |-> GcsPath(bucket, f.statement_handle, ManifestName),
     total_rows |-> f.total_rows,
     columns |-> Columns,
     total_size_estimate |-> f.total_size_estimate]

\* ------------------------------------------------------------- key store
\* A kid is a string, written as the sequence of its characters.
DateKid == <<"2", "0", "2", "5", "1", "1", "2", "6">>
TextKid == <<"t", "e", "s", "t", "k", "i", "d">>
Kids == {DateKid, TextKid}

\* RSA key pairs, as (priv_pem, pub_pem)
KeyPairs == { [priv |-> "priv-A", pub |-> "pub-A"],
              [priv |-> "priv-B", pub |-> "pub-B"] }

\* the days of the clock: 26 November 2025 and the days after it
FirstDay == 26
MaxDays == 2

DigitChars == <<"0", "1", "2", "3", "4", "5", "6", "7", "8", "9">>

\* A character outside ASCII is written by its Unicode name. The decimal
\* digits of Unicode (category Nd) outside ASCII are named "<script> DIGIT
\* <name>"; these are their scripts.
DigitScripts ==
    { "ARABIC-INDIC", "EXTENDED ARABIC-INDIC", "NKO", "DEVANAGARI", "BENGALI",
      "GURMUKHI", "GUJARATI", "ORIYA", "TAMIL", "TELUGU", "KANNADA", "MALAYALAM",
      "SINHALA LITH", "THAI", "LAO", "TIBETAN", "MYANMAR", "MYANMAR SHAN", "KHMER",
      "MONGOLIAN", "LIMBU", "NEW TAI LUE", "TAI THAM HORA", "TAI THAM THAM", "BALINESE",
      "SUNDANESE", "LEPCHA", "OL CHIKI", "VAI", "SAURASHTRA", "KAYAH LI", "JAVANESE",
      "MYANMAR TAI LAING", "CHAM", "MEETEI MAYEK", "FULLWIDTH", "OSMANYA",
      "HANIFI ROHINGYA", "BRAHMI", "SORA SOMPENG", "CHAKMA", "SHARADA", "KHUDAWADI",
      "NEWA", "TIRHUTA", "MODI", "TAKRI", "AHOM", "WARANG CITI", "DIVES AKURU",
      "BHAIKSUKI", "MASARAM GONDI", "GUNJALA GONDI", "MRO", "TANGSA", "PAHAWH HMONG",
      "MATHEMATICAL BOLD", "MATHEMATICAL DOUBLE-STRUCK", "MATHEMATICAL SANS-SERIF",
      "MATHEMATICAL SANS-SERIF BOLD", "MATHEMATICAL MONOSPACE", "NYIAKENG PUACHUE HMONG",
      "WANCHO", "ADLAM", "SEGMENTED" }

DigitNames == <<"ZERO", "ONE", "TWO", "THREE", "FOUR", "FIVE", "SIX", "SEVEN", "EIGHT", "NINE">>

\* the decimal digits of value i outside ASCII
DigitsOfValue(i) == {script \o " DIGIT " \o DigitNames[i + 1] : script \in DigitScripts}

UnicodeDigits == UNION {DigitsOfValue(i) : i \in 0..9}

\* [0-9] of a pattern: an ASCII digit
IsAsciiDigit(c) == \E i \in 1..10 : DigitChars[i] = c

\* \d of a str pattern: any decimal digit of Unicode (a character outside
\* ASCII goes by its name, which is longer than one character)
IsDigit(c) == IsAsciiDigit(c) \/ (Len(c) > 1 /\ c \in UnicodeDigits)

\* int(c) of a decimal digit
DigitOf(c) ==
    IF IsAsciiDigit(c) THEN (CHOOSE i \in 1..10 : DigitChars[i] = c) - 1
    ELSE CHOOSE i \in 0..9 : c \in DigitsOfValue(i)

\* the character of kid at position i, "" past its end
CharAt(kid, i) == IF i <= Len(kid) THEN kid[i] ELSE ""

\* c is one of the ASCII digits lo to hi: the class [lo-hi] of a pattern
DigitIn(c, lo, hi) == IF IsAsciiDigit(c) THEN DigitOf(c) \in lo..hi ELSE FALSE

\* how many characters the directive %m takes at position i: the pattern
\* 1[0-2]|0[1-9]|[1-9], its alternatives in that order; {} when none matches
MonthLengths(kid, i) ==
    (IF \/ CharAt(kid, i) = "1" /\ DigitIn(CharAt(kid, i + 1), 0, 2)
        \/ CharAt(kid, i) = "0" /\ DigitIn(CharAt(kid, i + 1), 1, 9)
     THEN {2} ELSE {})
    \cup (IF DigitIn(CharAt(kid, i), 1, 9) THEN {1} ELSE {})

\* how many characters the directive %d takes at position i: the pattern
\* 3[0-1]|[1-2]\d|0[1-9]|[1-9]| [1-9], the first alternative that matches; 0
\* when none does
DayLength(kid, i) ==
    IF \/ CharAt(kid, i) = "3" /\ DigitIn(CharAt(kid, i + 1), 0, 1)
       \/ DigitIn(CharAt(kid, i), 1, 2) /\ IsDigit(CharAt(kid, i + 1))
       \/ CharAt(kid, i) = "0" /\ DigitIn(CharAt(kid, i + 1), 1, 9)
    THEN 2
    ELSE IF DigitIn(CharAt(kid, i), 1, 9) THEN 1
    ELSE IF CharAt(kid, i) = " " /\ DigitIn(CharAt(kid, i + 1), 1, 9) THEN 2
    ELSE 0

\* int() of the characters i..j of kid, a leading space skipped
RECURSIVE IntOf(_, _, _)
IntOf(kid, i, j) ==
    IF j < i THEN 0
    ELSE IF kid[j] = " " THEN 0
    ELSE 10 * IntOf(kid, i, j - 1) + DigitOf(kid[j])

\* the days of a month of the proleptic Gregorian calendar
DaysInMonth(year, month) ==
    IF month = 2
    THEN (IF year % 4 = 0 /\ (year % 100 # 0 \/ year % 400 = 0) THEN 29 ELSE 28)
    ELSE IF month \in {4, 6, 9, 11} THEN 30 ELSE 31

\* datetime.datetime.strptime(kid, "%Y%m%d"): <<>> when it raises ValueError,
\* else the date. %Y takes four digits; %m takes two characters when %d can
\* follow them and else one; what is left after %d is "unconverted data";
\* the year 0 and a day past the end of the month are no date (133)
Strptime(kid) ==
    IF ~(\A i \in 1..4 : IsDigit(CharAt(kid, i))) THEN <<>>
    ELSE LET fits == {n \in MonthLengths(kid, 5) : DayLength(kid, 5 + n) > 0}
         IN IF fits = {} THEN <<>>
            ELSE LET m == IF 2 \in fits THEN 2 ELSE 1
                     d == DayLength(kid, 5 + m)
                     year == IntOf(kid, 1, 4)
                     month == IntOf(kid, 5, 4 + m)
                     day == IntOf(kid, 5 + m, 4 + m + d)
                 IN IF Len(kid) # 4 + m + d THEN <<>>
                    ELSE IF year < 1 THEN <<>>
                    ELSE IF day > DaysInMonth(year, month) THEN <<>>
                    ELSE << [year |-> year, month |-> month, day |-> day] >>

\* strptime(kid, "%Y%m%d") does not raise
ParsesAsYmd(kid) == Strptime(kid) # <<>>

\* datetime.date.today().strftime('%Y%m%d') on day d of November 2025
TodayYmd(d) ==
    <<"2", "0", "2", "5", "1", "1", DigitChars[(d \div 10) + 1], DigitChars[(d % 10) + 1]>>

\* f"{kid}-{suffix}", or today's date in place of a kid that is not a date (126-136)
_date_secret_id_for_kid(kid, suffix, d) ==
    IF ParsesAsYmd(kid) THEN <<kid, suffix>> ELSE <<TodayYmd(d), suffix>>

NoSecrets == [id \in {} |-> <<>>]

\* Instants are counted in hours from the start of November 2025. The clock
\* is read at noon: datetime.datetime.utcnow() on day d.
UtcNow(d) == 24 * (d - 1) + 12

\* TypeError of `exp_dt < datetime.datetime.utcnow()` for an aware exp_dt
CompareError ==
    [type |-> "TypeError", msg |-> "can't compare offset-naive and offset-aware datetimes"]

\* what a backend call raises when it fails with an error that is no
\* GoogleAPICallError (a RetryError of the client, for one)
BackendError == [type |-> "RetryError", msg |-> "Deadline exceeded"]

\* An `expires` string is written as the instant it names and the characters
\* that follow the seconds in it: none, a fraction, a UTC offset, anything.
\* expires_dt.isoformat() + "Z" of an aware UTC datetime four days ahead:
\* "...+00:00Z" (145-146)
ExpiresAt(d) ==
    [at |-> UtcNow(d) + 4 * 24, tz |-> <<"+", "0", "0", ":", "0", "0", "Z">>]

\* the UTF-8 bytes of a string: a character outside ASCII has two or more,
\* none of them a byte the parser of fromisoformat knows
RECURSIVE Utf8(_)
Utf8(chars) ==
    IF chars = <<>> THEN <<>>
    ELSE (IF Len(chars[1]) = 1 THEN <<chars[1]>> ELSE <<"?", "?">>) \o Utf8(Tail(chars))

\* the time part of an `expires` string, from the hour on
TimeBytes(tz) == <<"1", "2", ":", "0", "0", ":", "0", "0">> \o Utf8(tz)

\* the byte of s at position i, "" for the NUL that ends the string
ByteAt(s, i) == IF i \in 1..Len(s) THEN s[i] ELSE ""

\* the first position from p on that holds no ASCII digit
RECURSIVE SkipDigits(_, _)
SkipDigits(s, p) == IF IsAsciiDigit(ByteAt(s, p)) THEN SkipDigits(s, p + 1) ELSE p

\* fromisoformat, the fraction of a time or an offset: the bytes from p up to
\* e, six of them at most, are digits; further digits are passed over; rv is 1
\* when the string goes on after them
ParseFraction(s, p, e, vals) ==
    LET to_parse == IF e - p >= 6 THEN 6 ELSE e - p
    IN IF \E k \in 0..(to_parse - 1) : ~IsAsciiDigit(ByteAt(s, p + k))
       THEN [rv |-> -3, vals |-> vals]
       ELSE [rv |-> IF ByteAt(s, SkipDigits(s, p + to_parse)) # "" THEN 1 ELSE 0,
             vals |-> vals]

\* fromisoformat, HH[:MM[:SS[.ffffff]]] or HHMMSS in the bytes of s from p up
\* to e, field i being the next: rv is negative when they do not parse, 1 when
\* a byte follows the last field read, else 0; vals are the fields read
RECURSIVE ParseFields(_, _, _, _, _, _)
ParseFields(s, p, e, i, separator, vals) ==
    IF ~(IsAsciiDigit(ByteAt(s, p)) /\ IsAsciiDigit(ByteAt(s, p + 1)))
    THEN [rv |-> -3, vals |-> vals]
    ELSE LET v == Append(vals, 10 * DigitOf(s[p]) + DigitOf(s[p + 1]))
             c == ByteAt(s, p + 2)
             q == p + 3
             has_separator == IF i = 0 THEN c = ":" ELSE separator
         IN IF q >= e THEN [rv |-> IF c # "" THEN 1 ELSE 0, vals |-> v]
            ELSE IF has_separator /\ c = ":"
            THEN (IF i = 2 THEN ParseFraction(s, q, e, v)
                  ELSE ParseFields(s, q, e, i + 1, has_separator, v))
            ELSE IF c \in {".", ","} THEN ParseFraction(s, q, e, v)
            ELSE IF ~has_separator
            THEN (IF i = 2 THEN ParseFraction(s, q - 1, e, v)
                  ELSE ParseFields(s, q - 1, e, i + 1, has_separator, v))
            ELSE [rv |-> -4, vals |-> v]

\* the seconds of the fields of a UTC offset
OffsetSeconds(vals) ==
    LET field(i) == IF i <= Len(vals) THEN vals[i] ELSE 0
    IN 3600 * field(1) + 60 * field(2) + field(3)

\* datetime.datetime.fromisoformat(expires): <<>> when it raises ValueError,
\* else the instant, aware when the string carries "Z" or a UTC offset and
\* naive when it carries none. The time part runs up to the first "Z", "+" or
\* "-"; "Z" ends the string; an offset is below 24 hours (248, 312)
FromIsoFormat(expires) ==
    LET s == TimeBytes(expires.tz)
        n == Len(s) + 1
        marks == {i \in 1..Len(s) : s[i] \in {"Z", "+", "-"}}
        tzinfo_pos == IF marks = {} THEN n ELSE CHOOSE i \in marks : \A j \in marks : i <= j
        time == ParseFields(s, 1, tzinfo_pos, 0, TRUE, <<>>)
        offset == ParseFields(s, tzinfo_pos + 1, n, 0, TRUE, <<>>)
        naive == << [at |-> expires.at, aware |-> FALSE] >>
        aware == << [at |-> expires.at, aware |-> TRUE] >>
    IN IF time.rv < 0 THEN <<>>
       ELSE IF tzinfo_pos = n THEN (IF time.rv = 1 THEN <<>> ELSE naive)
       ELSE IF s[tzinfo_pos] = "Z" THEN (IF tzinfo_pos + 1 < n THEN <<>> ELSE aware)
       ELSE IF offset.rv # 0 THEN <<>>
       ELSE IF OffsetSeconds(offset.vals) >= 86400 THEN <<>>
       ELSE aware

\* `if expires:` ... `if exp_dt and exp_dt < datetime.datetime.utcnow()`
\* (245-252, 309-316): the version is kept, it is skipped as expired, or the
\* comparison of an aware exp_dt with the naive utcnow() raises TypeError
ExpiryCheck(data, d) ==
    LET expires == DictGet(data, "expires")
    IN IF expires = <<>> THEN "kept"
       ELSE LET exp_dt == FromIsoFormat(expires[1])
            IN IF exp_dt = <<>> THEN "kept"
               ELSE IF exp_dt[1].aware THEN "TypeError"
               ELSE IF exp_dt[1].at < UtcNow(d) THEN "expired"
               ELSE "kept"

\* json.dumps({"kid": kid, "pem": pem, "expires": expires_at}) (169)
Payload(kid, pem, expires_at) == [kid |-> kid, pem |-> pem, expires |-> expires_at]

\* client.create_secret: AlreadyExists leaves the secret as it is (154-167)
CreateSecret(sec, secret_id) ==
    IF secret_id \in DOMAIN sec THEN sec
    ELSE [id \in DOMAIN sec \cup {secret_id} |-> IF id = secret_id THEN <<>> ELSE sec[id]]

\* client.add_secret_version (171-176)
AddSecretVersion(sec, secret_id, payload) ==
    [sec EXCEPT ![secret_id] = Append(@, payload)]

\* How a backend call of a load ends: it answers, it raises a
\* GoogleAPICallError (NotFound apart, which is the answer for a missing
\* secret), or it raises another error.
CallOutcomes == {"ok", "api_error", "error"}

\* _find_pem, one version of the list (236-255), its access_secret_version
\* ending as `access`: <<pem>> when the version is returned, <<>> when it is
\* passed over: the access or the expiry check raised (254-255), the version
\* is of another kid, or it has expired
FindPemVersion(data, kid, d, access) ==
    IF access = "ok" /\ DictGet(data, "kid") = <<kid>> /\ ExpiryCheck(data, d) = "kept"
    THEN <<data.pem>>
    ELSE <<>>

\* load_public_key, one version of the list (291-317), its
\* access_secret_version ending as `access`: the version is returned (next
\* "return", its pem), it is passed over (next "skip": a GoogleAPICallError of
\* the access, another kid, expired), or an exception leaves the function
\* (next "raise", exc): another error of the access, or the TypeError of the
\* expiry check
PublicVersion(data, kid, d, access) ==
    LET raise(exc) == [next |-> "raise", exc |-> <<exc>>, pem |-> <<>>]
        skip == [next |-> "skip", exc |-> <<>>, pem |-> <<>>]
        checked == [kept |-> [next |-> "return", exc |-> <<>>, pem |-> <<data.pem>>],
                    expired |-> skip,
                    TypeError |-> raise(CompareError)]
    IN IF access = "error" THEN raise(BackendError)
       ELSE IF access = "api_error" THEN skip
       ELSE IF DictGet(data, "kid") # <<kid>> THEN skip
       ELSE checked[ExpiryCheck(data, d)]

\* the secret backend after a store_key that ran on day d with no other call
\* in between and whose fail_at-th backend call raised (0: none did); the
\* calls are create_secret and add_secret_version for the private half, then
\* for the public half (149-176)
StoreKeyEffect(sec, kid, pair, d, fail_at) ==
    LET priv_id == _date_secret_id_for_kid(kid, "private", d)
        pub_id == _date_secret_id_for_kid(kid, "public", d)
        s1 == CreateSecret(sec, priv_id)
        s2 == AddSecretVersion(s1, priv_id, Payload(kid, pair.priv, ExpiresAt(d)))
        s3 == CreateSecret(s2, pub_id)
        s4 == AddSecretVersion(s3, pub_id, Payload(kid, pair.pub, ExpiresAt(d)))
    IN CASE fail_at = 0 -> s4
         [] fail_at = 1 -> sec
         [] fail_at = 2 -> s1
         [] fail_at = 3 -> s2
         [] fail_at = 4 -> s3

\* `if priv and pub: return priv, pub` / `return None` (258-262): a pem that
\* is None or the empty string is falsy
LoadKeyValue(priv, pub) ==
    IF ~Falsy(priv) /\ ~Falsy(pub)
    THEN << [priv |-> priv[1], pub |-> pub[1]] >>
    ELSE <<>>

\* mutant: the listing creates a missing secret, as load_key's does
ListPublicCreates(sec, secret_id, listing) ==
    [secrets |-> CreateSecret(sec, secret_id),
     next |-> IF listing = "error" THEN "raise"
              ELSE IF listing = "api_error" \/ secret_id \notin DOMAIN sec THEN "none"
              ELSE "scan"]

\* load_public_key, list_secret_versions ending as `listing` (279-284): the
\* backend it leaves, and how the function goes on: NotFound (the secret is
\* missing) and every GoogleAPICallError return None, another error leaves the
\* function, else the versions are scanned
ListPublic(sec, secret_id, listing) ==
    [secrets |-> sec,
     next |-> IF listing = "error" THEN "raise"
              ELSE IF listing = "api_error" \/ secret_id \notin DOMAIN sec THEN "none"
              ELSE "scan"]

\* The secret backend as the first call finds it: empty, or holding in the
\* secrets of 26 November two versions of a key of the date kid put there by
\* another writer, one expiring the next morning at six (a naive timestamp)
\* and one four days ahead (an aware timestamp); the naive one is the older
\* version of the private secret and the newer one of the public secret.
ForeignNaive == [at |-> UtcNow(FirstDay + 1) - 6, tz |-> <<>>]
ForeignAware == [at |-> UtcNow(FirstDay) + 4 * 24, tz |-> <<"+", "0", "0", ":", "0", "0">>]

ForeignBackend ==
    [id \in {<<DateKid, "private">>, <<DateKid, "public">>} |->
        IF id[2] = "private"
        THEN << Payload(DateKid, "priv-F", ForeignNaive), Payload(DateKid, "priv-F", ForeignAware) >>
        ELSE << Payload(DateKid, "pub-F", ForeignAware), Payload(DateKid, "pub-F", ForeignNaive) >>]

Backends == {NoSecrets, ForeignBackend}

\* ----------------------------------------------------------------- submit
GPC_SUBJECT == "109805708368864229943"

\* the audience and the issuer of the tokens the tests expect to be refused
WrongAudience == "https://fraud.example"
WrongIssuer == "https://evil.example"

\* A token: whether its header parses, the kid of its header (<<>>: none), the
\* private key that signed it, whether its exp claim is in the past, its
\* claims. auth.py names no audience and no issuer, and the token that is
\* valid carries neither claim.
ValidToken ==
    [header_ok |-> TRUE, kid |-> <<TextKid>>, signed_with |-> "priv-A", expired |-> FALSE,
     claims |-> [sub |-> GPC_SUBJECT]]

Tokens ==
    { ValidToken,
      [ValidToken EXCEPT !.header_ok = FALSE],
      [ValidToken EXCEPT !.kid = <<>>],
      [ValidToken EXCEPT !.kid = <<DateKid>>],
      [ValidToken EXCEPT !.signed_with = "priv-B"],
      [ValidToken EXCEPT !.expired = TRUE],
      [ValidToken EXCEPT !.claims = [sub |-> "different-sub"]],
      [ValidToken EXCEPT !.claims = [k \in {} |-> ""]],
      [ValidToken EXCEPT !.claims = [sub |-> GPC_SUBJECT, aud |-> WrongAudience]],
      [ValidToken EXCEPT !.claims = [sub |-> GPC_SUBJECT, iss |-> WrongIssuer]] }

\* The authorization header: <<>> when absent, else the characters of its
\* first word (those before the first space), whether a space follows it, and
\* the token after that space (<<>>: the empty string). A character outside
\* ASCII is written by its Unicode name.
Word(scheme, space, credentials) ==
    << [scheme |-> scheme, space |-> space, credentials |-> credentials] >>

Authorizations ==
    { <<>>,
      Word(<<"B", "a", "s", "i", "c">>, TRUE, <<ValidToken>>),
      Word(<<"B", "e", "a", "r", "e", "r">>, FALSE, <<>>),
      Word(<<"B", "e", "a", "r", "e", "r">>, TRUE, <<>>),
      Word(<<"b", "e", "a", "r", "e", "r">>, TRUE, <<ValidToken>>),
      Word(<<"B", "E", "A", "R", "E", "R">>, TRUE, <<ValidToken>>),
      Word(<<"b", "E", "a", "R", "e", "R">>, TRUE, <<ValidToken>>),
      Word(<<"B", "e", "a", "r", "e", "r", "s">>, TRUE, <<ValidToken>>),
      Word(<<"FULLWIDTH LATIN CAPITAL LETTER B", "e", "a", "r", "e", "r">>, TRUE,
           <<ValidToken>>) }
    \cup { Word(<<"B", "e", "a", "r", "e", "r">>, TRUE, <<t>>) : t \in Tokens }

\* The JSON body of the request.
Bodies ==
    { [execution_id |-> "h1"],
      [execution_id |-> "h3"],
      [execution_id |-> "h5"],
      [execution_id |-> ""],
      [statementHandle |-> "h1"],
      [execution_id |-> "h1", statementHandle |-> "h1"] }

\* The requests: the header that carries the valid token with every body,
\* and every header with the body that names the job without sql_text.
Requests ==
    {[authorization |-> Word(<<"B", "e", "a", "r", "e", "r">>, TRUE, <<ValidToken>>),
      body |-> b] : b \in Bodies}
    \cup {[authorization |-> a, body |-> [execution_id |-> "h3"]] : a \in Authorizations}

\* c.lower() == l, for a character c and a small letter l of ASCII: c is l
\* or its capital; of the characters outside ASCII only the Kelvin sign
\* lowercases to a letter of ASCII, and none to a string that holds one of
\* the characters of "bearer "
LowersTo(c, l) ==
    LET upper == <<"A", "B", "C", "D", "E", "F", "G", "H", "I", "J", "K", "L", "M",
                   "N", "O", "P", "Q", "R", "S", "T", "U", "V", "W", "X", "Y", "Z">>
        lower == <<"a", "b", "c", "d", "e", "f", "g", "h", "i", "j", "k", "l", "m",
                   "n", "o", "p", "q", "r", "s", "t", "u", "v", "w", "x", "y", "z">>
    IN \/ c = l
       \/ \E i \in DOMAIN upper : upper[i] = c /\ lower[i] = l
       \/ c = "KELVIN SIGN" /\ l = "k"

\* auth.lower().startswith("bearer "): the first word is "bearer" in any
\* casing and a space follows it (31)
StartsWithBearer(authorization) ==
    LET bearer == <<"b", "e", "a", "r", "e", "r">>
    IN IF authorization = <<>> THEN FALSE
       ELSE /\ Len(authorization[1].scheme) = Len(bearer)
            /\ \A i \in DOMAIN bearer : LowersTo(authorization[1].scheme[i], bearer[i])
            /\ authorization[1].space

\* _extract_bearer_token: auth.split(" ", 1)[1] of a header that starts with
\* "bearer "; <<>> for None and for the empty string, both falsy (29-33)
_extract_bearer_token(authorization) ==
    IF ~StartsWithBearer(authorization) THEN <<>>
    ELSE authorization[1].credentials

\* the RS256 signature made with a private key verifies under a public key
Verifies(signed_with, pub_pem) ==
    \E pair \in KeyPairs : pair.priv = signed_with /\ pair.pub = pub_pem

\* jose_jwt.decode(token, pub_pem, algorithms=["RS256"], options={"verify_aud": False})
\* does not raise: the signature verifies and exp is not past (56-61)
Decodes(token, pub_pem) == Verifies(token.signed_with, pub_pem) /\ ~token.expired

HTTPException(status_code, detail) ==
    [kind |-> "http_exception", status |-> status_code, detail |-> detail]

Claims(claims) == [kind |-> "claims", claims |-> claims]

\* validate_token as far as the key lookup: the HTTPException raised for a
\* header that does not parse or has no kid, or the kid to look up (43-50)
UnverifiedKid(token) ==
    IF ~token.header_ok THEN HTTPException(401, "Invalid token header")
    ELSE IF token.kid = <<>> \/ token.kid[1] = <<>>
    THEN HTTPException(401, "Token missing kid header")
    ELSE [kind |-> "kid", kid |-> token.kid[1]]

\* validate_token(token, expected_sub), `loaded` being how the call
\* secret_store.load_public_key(kid) ended when it is reached (next "return"
\* with <<pem>> or <<>> for None, next "raise" with the exception; `if not
\* pub_pem` holds for None and for the empty string): the
\* claims, the HTTPException raised, or the exception load_public_key let
\* out, which nothing catches (36-66)
validate_token(token, expected_sub, loaded) ==
    IF UnverifiedKid(token).kind # "kid" THEN UnverifiedKid(token)
    ELSE IF loaded.next = "raise" THEN [kind |-> "raised", exc |-> loaded.exc[1]]
    ELSE IF Falsy(loaded.pem) THEN HTTPException(401, "Public key not found for kid")
    ELSE IF ~Decodes(token, loaded.pem[1])
    THEN HTTPException(401, "Invalid token signature or claims")
    ELSE IF DictGet(token.claims, "sub") # <<expected_sub>>
    THEN HTTPException(401, "Token subject mismatch")
    ELSE Claims(token.claims)

\* validate_token_from_request(request) (69-75)
validate_token_from_request(authorization, expected_sub, loaded) ==
    IF _extract_bearer_token(authorization) = <<>>
    THEN HTTPException(401, "Authorization missing or invalid")
    ELSE validate_token(_extract_bearer_token(authorization)[1], expected_sub, loaded)

\* no request: process_statement called directly
NoRequest == [authorization |-> <<>>, body |-> [k \in {} |-> ""]]

NoResponse == [kind |-> "none"]

\* no key store call under way
NoCall == [op |-> "none"]

\* ------------------------------------------------------- audit middleware
\* The request of the model is POST /api/v1/submit.
Method == "POST"
Path == "/api/v1/submit"

\* logger.audit(payload): it returns, the logger has no audit method
\* (AttributeError), or it raises something else (97-101)
LoggerOutcomes == {"ok", "no_audit", "raises"}

\* call_next(request) as dispatch sees it: the response of submit; for an
\* HTTPException of submit the response FastAPI makes of it inside the
\* middleware, with its status_code; any other exception is raised (17)
CallNext(resp) ==
    IF resp.kind = "raised" THEN [kind |-> "raised", exc |-> resp.exc]
    ELSE [kind |-> "response", status |-> resp.status]

\* status: response.status_code, or exc.status_code when the exception has
\* one, or 500 (16-28)
StatusOf(outcome) ==
    IF outcome.kind = "response" THEN outcome.status
    ELSE IF "status_code" \in DOMAIN outcome.exc THEN outcome.exc.status_code
    ELSE 500

\* message: "okay", or getattr(exc, "detail", str(exc)) (19-22)
MessageOf(outcome) ==
    IF outcome.kind = "response" THEN "okay"
    ELSE IF "detail" \in DOMAIN outcome.exc THEN outcome.exc.detail
    ELSE Str(outcome.exc)

\* jwt_present and jwt_sub of the payload, for a header that starts with
\* "bearer ": sub from jose_jwt.get_unverified_claims(token), which raises
\* JWTError for the empty string and for a header that does not parse (45-58)
JwtFields(authorization) ==
    IF ~StartsWithBearer(authorization) THEN [k \in {} |-> <<>>]
    ELSE IF authorization[1].credentials = <<>> THEN [jwt_present |-> <<TRUE>>]
    ELSE IF ~authorization[1].credentials[1].header_ok THEN [jwt_present |-> <<TRUE>>]
    ELSE IF Falsy(DictGet(authorization[1].credentials[1].claims, "sub"))
    THEN [jwt_present |-> <<TRUE>>]
    ELSE [jwt_present |-> <<TRUE>>,
          jwt_sub |-> DictGet(authorization[1].credentials[1].claims, "sub")]

\* the payload given to logger.audit; the bodies submit answers with carry no
\* `audit` object, so response_audit is never set (30-96)
AuditPayload(req, outcome) ==
    [method |-> <<Method>>, path |-> <<Path>>, status |-> <<StatusOf(outcome)>>,
     message |-> <<MessageOf(outcome)>>] @@ JwtFields(req.authorization)

NoClient == [kind |-> "none"]

\* ------------------------------------------------------------------ state
VARIABLES
    ledger,   \* jobs collection: handle -> document (a dict of the fields set)
    store,    \* object store: path -> object
    pc,       \* per caller: where its process_statement call stands
    frame,    \* per caller: the locals of the call
    result,   \* per caller: how the call ended (returned, or raised what)
    trace,    \* per caller: the collaborator calls the call made, in order
    execs,    \* number of calls started
    today,    \* the clock of the key store: the current day
    secrets,  \* secret backend: secret id -> the payloads of its versions, oldest first
    keylog,   \* the calls and returns of the key store operations, in order
    keycall,  \* per caller: the key store call it is in, and where that call stands
    request,  \* per caller: the HTTP request submit received
    http,     \* per caller: where the submit handler stands
    response, \* per caller: how submit answered
    audited,  \* per caller: the logger.audit calls of the middleware, in order
    client    \* per caller: what the middleware gave back for the request

\* the state of the key store and of the submit endpoint
auditVars == <<audited, client>>

\* the state of the key store
keyVars == <<today, secrets, keylog, keycall>>

authVars == <<keyVars, request, http, response, auditVars>>

vars == <<ledger, store, pc, frame, result, trace, execs, authVars>>

NewFrame(statement_handle) ==
    [statement_handle |-> statement_handle,
     sql |-> <<>>,
     emitted |-> <<>>,
     part_index |-> 0,
     buffered_batches |-> <<>>,
     buffered_rows |-> 0,
     buffered_bytes |-> 0,
     parts |-> <<>>,
     total_size_estimate |-> 0,
     total_rows |-> 0,
     manifest |-> <<>>,
     exc |-> NoExc]

Running == [kind |-> "running", exc |-> NoExc]
Returned == [kind |-> "returned", exc |-> NoExc]
Raised(exc) == [kind |-> "raised", exc |-> exc]

\* one collaborator call: what was called, whether it succeeded, and what an
\* update carried (status, error) or a write wrote (path, obj)
Event(op, ok, status, error, path, obj) ==
    [op |-> op, ok |-> ok, status |-> status, error |-> error, path |-> path, obj |-> obj]

Log(p, ev) == trace' = [trace EXCEPT ![p] = Append(@, ev)]

Put(st, path, obj) ==
    [q \in DOMAIN st \cup {path} |-> IF q = path THEN obj ELSE st[q]]

Init ==
    /\ ledger = InitialLedger
    /\ store = [q \in {} |-> <<>>]
    /\ pc = [p \in Procs |-> "idle"]
    /\ frame = [p \in Procs |-> NewFrame("")]
    /\ result = [p \in Procs |-> Running]
    /\ trace = [p \in Procs |-> <<>>]
    /\ execs = 0
    /\ today = FirstDay
    /\ secrets = NoSecrets
    /\ keylog = <<>>
    /\ keycall = [p \in Procs |-> NoCall]
    /\ request = [p \in Procs |-> NoRequest]
    /\ http = [p \in Procs |-> "direct"]
    /\ response = [p \in Procs |-> NoResponse]
    /\ audited = [p \in Procs |-> <<>>]
    /\ client = [p \in Procs |-> NoClient]

\* ---------------------------------------------------------------- actions
\* entering process_statement(h): _get_firestore_client() (108-110)
Enter(p, h, db_ok) ==
    /\ execs' = execs + 1
    /\ frame' = [frame EXCEPT ![p] = NewFrame(h)]
    /\ trace' = [trace EXCEPT ![p] = <<>>]
    /\ IF db_ok
       THEN /\ pc' = [pc EXCEPT ![p] = "get"]
            /\ result' = [result EXCEPT ![p] = Running]
       ELSE /\ pc' = [pc EXCEPT ![p] = "done"]
            /\ result' = [result EXCEPT ![p] =
                    Raised([type |-> "RuntimeError", msg |-> "Firestore client unavailable"])]
    /\ UNCHANGED <<ledger, store>>

\* the caller's first call of process_statement
Start(p, h, db_ok) ==
    /\ pc[p] = "idle"
    /\ Enter(p, h, db_ok)
    /\ UNCHANGED authVars

\* a later call by the same caller, after the previous one ended
StartAgain(p, h, db_ok) ==
    /\ pc[p] = "done"
    /\ execs < MaxExecs
    /\ Enter(p, h, db_ok)
    /\ UNCHANGED authVars

\* mutant: one document reference shared by all callers
DoUpdateSharedRef(p, ok, payload) ==
    /\ Log(p, Event("update", ok, payload.status,
                    DictGet(payload, "error"), <<>>, <<>>))
    /\ ledger' = IF ok
                 THEN [ledger EXCEPT !["h1"] = Merge(@, payload)]
                 ELSE ledger

\* the ledger applies doc_ref.update(payload) of caller p, or raises
DoUpdate(p, ok, payload) ==
    /\ Log(p, Event("update", ok, payload.status,
                    DictGet(payload, "error"), <<>>, <<>>))
    /\ ledger' = IF ok
                 THEN [ledger EXCEPT ![frame[p].statement_handle] = Merge(@, payload)]
                 ELSE ledger

\* whether the ledger accepts an update of caller p: the document must exist
Accepts(p, ok) == ok /\ frame[p].statement_handle \in DOMAIN ledger

\* doc_ref.get(), doc.exists, job.get("sql_text") (112-119)
GetJob(p, ok) ==
    /\ pc[p] = "get"
    /\ Log(p, Event("get", ok, "", <<>>, <<>>, <<>>))
    /\ LET h == frame[p].statement_handle
           branch == JobBranch(ledger, h)
       IN IF ~ok
          THEN /\ pc' = [pc EXCEPT ![p] = "done"]
               /\ result' = [result EXCEPT ![p] = Raised(LedgerError("get"))]
               /\ UNCHANGED frame
          ELSE IF branch = "not_found"
          THEN /\ pc' = [pc EXCEPT ![p] = "done"]
               /\ result' = [result EXCEPT ![p] =
                       Raised(NoJobFound(h))]
               /\ UNCHANGED frame
          ELSE /\ pc' = [pc EXCEPT ![p] =
                       IF branch = "missing_sql" THEN "missing_sql" ELSE "set_executing"]
               /\ frame' = [frame EXCEPT ![p].sql =
                       IF h \in DOMAIN ledger THEN DictGet(ledger[h], "sql_text") ELSE <<>>]
               /\ UNCHANGED result
    /\ UNCHANGED <<ledger, store, execs, authVars>>

\* the FAILED update for a job without sql_text, then `return` (120-128)
UpdateMissingSql(p, ok) ==
    /\ pc[p] = "missing_sql"
    /\ DoUpdate(p, Accepts(p, ok), MissingSqlPayload)
    /\ pc' = [pc EXCEPT ![p] = "done"]
    /\ result' = [result EXCEPT ![p] =
            IF Accepts(p, ok) THEN Returned ELSE Raised(LedgerError("missing_sql"))]
    /\ UNCHANGED <<store, frame, execs, authVars>>

\* mutant: the call goes on to the engine when the EXECUTING update raised
UpdateExecutingBestEffort(p, ok) ==
    /\ pc[p] = "set_executing"
    /\ DoUpdate(p, Accepts(p, ok), ExecutingPayload)
    /\ pc' = [pc EXCEPT ![p] = "connect"]
    /\ UNCHANGED result
    /\ UNCHANGED <<store, frame, execs, authVars>>

\* the EXECUTING update, before the try block (131-139)
UpdateExecuting(p, ok) ==
    /\ pc[p] = "set_executing"
    /\ DoUpdate(p, Accepts(p, ok), ExecutingPayload)
    /\ IF Accepts(p, ok)
       THEN /\ pc' = [pc EXCEPT ![p] = "connect"]
            /\ UNCHANGED result
       ELSE /\ pc' = [pc EXCEPT ![p] = "done"]
            /\ result' = [result EXCEPT ![p] = Raised(LedgerError("executing"))]
    /\ UNCHANGED <<store, frame, execs, authVars>>

\* mutant: an exception inside the try block restarts the query
CatchAndRetry(p, exc) ==
    /\ pc' = [pc EXCEPT ![p] = "connect"]
    /\ frame' = [frame EXCEPT ![p].exc = exc]

\* an exception inside the try block reaches `except Exception as exc` (234)
Catch(p, exc) ==
    /\ pc' = [pc EXCEPT ![p] = "except"]
    /\ frame' = [frame EXCEPT ![p].exc = exc]

\* opteryx.connect(), conn.cursor(), execute_to_arrow_batches (142-152)
OpenEngine(p, ok) ==
    /\ pc[p] = "connect"
    /\ Log(p, Event("open", ok, "", <<>>, <<>>, <<>>))
    /\ IF ok
       THEN /\ pc' = [pc EXCEPT ![p] = "pull"]
            /\ frame' = [frame EXCEPT ![p].part_index = 0,
                                      ![p].buffered_batches = <<>>,
                                      ![p].buffered_rows = 0,
                                      ![p].parts = <<>>]
       ELSE Catch(p, EngineError)
    /\ UNCHANGED <<ledger, store, result, execs, authVars>>

\* mutant: the batch pulled is put in front of the buffer
PullBatchPrepend(p, b) ==
    /\ pc[p] = "pull"
    /\ Len(frame[p].emitted) < MaxBatches
    /\ SameSchema(frame[p].emitted, b)
    /\ Log(p, Event("pull", TRUE, "", <<>>, <<>>, <<>>))
    /\ LET f == frame[p]
           buffered == <<b>> \o f.buffered_batches
           bytes == _estimate_table_bytes(buffered)
       IN /\ frame' = [frame EXCEPT ![p] =
                  [f EXCEPT !.emitted = Append(@, b),
                            !.buffered_batches = buffered,
                            !.buffered_rows = @ + b.num_rows,
                            !.buffered_bytes = bytes]]
          /\ pc' = [pc EXCEPT ![p] = IF ShouldFlush(bytes) THEN "flush" ELSE "pull"]
    /\ UNCHANGED <<ledger, store, result, execs, authVars>>

\* `for batch in batches`: the engine yields batch b (154-164)
PullBatch(p, b) ==
    /\ pc[p] = "pull"
    /\ Len(frame[p].emitted) < MaxBatches
    /\ SameSchema(frame[p].emitted, b)
    /\ Log(p, Event("pull", TRUE, "", <<>>, <<>>, <<>>))
    /\ LET f == frame[p]
           buffered == Append(f.buffered_batches, b)
           bytes == _estimate_table_bytes(buffered)
       IN /\ frame' = [frame EXCEPT ![p] =
                  [f EXCEPT !.emitted = Append(@, b),
                            !.buffered_batches = buffered,
                            !.buffered_rows = @ + b.num_rows,
                            !.buffered_bytes = bytes]]
          /\ pc' = [pc EXCEPT ![p] = IF ShouldFlush(bytes) THEN "flush" ELSE "pull"]
    /\ UNCHANGED <<ledger, store, result, execs, authVars>>

\* the engine raises while the next batch is pulled
PullFail(p) ==
    /\ pc[p] = "pull"
    /\ Log(p, Event("pull", FALSE, "", <<>>, <<>>, <<>>))
    /\ Catch(p, EngineError)
    /\ UNCHANGED <<ledger, store, result, execs, authVars>>

\* mutant: a final part is written even when nothing is buffered
PullEndAlwaysLast(p) ==
    /\ pc[p] = "pull"
    /\ Log(p, Event("pull_end", TRUE, "", <<>>, <<>>, <<>>))
    /\ pc' = [pc EXCEPT ![p] = "last_part"]
    /\ UNCHANGED <<ledger, store, frame, result, execs, authVars>>

\* mutant: the remaining buffered batches are not written after the loop
PullEndSkipsRemainder(p) ==
    /\ pc[p] = "pull"
    /\ Log(p, Event("pull_end", TRUE, "", <<>>, <<>>, <<>>))
    /\ pc' = [pc EXCEPT ![p] = "manifest"]
    /\ UNCHANGED <<ledger, store, frame, result, execs, authVars>>

\* the stream is exhausted: `if buffered_batches` (177)
PullEnd(p) ==
    /\ pc[p] = "pull"
    /\ Log(p, Event("pull_end", TRUE, "", <<>>, <<>>, <<>>))
    /\ pc' = [pc EXCEPT ![p] =
            IF frame[p].buffered_batches # <<>> THEN "last_part" ELSE "manifest"]
    /\ UNCHANGED <<ledger, store, frame, result, execs, authVars>>

\* _write_parquet_table of a flushed part and the reset (165-174)
WritePart(p, ok) ==
    /\ pc[p] = "flush"
    /\ LET f == frame[p]
           gcs_path == GcsPath(Bucket, f.statement_handle, PartName(f.part_index))
           obj == [kind |-> "parquet", batches |-> f.buffered_batches]
       IN /\ Log(p, Event("write", ok, "", <<>>, gcs_path, obj))
          /\ IF ok
             THEN /\ store' = Put(store, gcs_path, obj)
                  /\ frame' = [frame EXCEPT ![p] = AfterFlush(f)]
                  /\ pc' = [pc EXCEPT ![p] = "pull"]
             ELSE /\ Catch(p, WriteError(gcs_path))
                  /\ UNCHANGED store
    /\ UNCHANGED <<ledger, result, execs, authVars>>

\* the final part from the remaining buffered batches (177-184)
WriteLastPart(p, ok) ==
    /\ pc[p] = "last_part"
    /\ LET f == frame[p]
           gcs_path == GcsPath(Bucket, f.statement_handle, PartName(f.part_index))
           obj == [kind |-> "parquet", batches |-> f.buffered_batches]
       IN /\ Log(p, Event("write", ok, "", <<>>, gcs_path, obj))
          /\ IF ok
             THEN /\ store' = Put(store, gcs_path, obj)
                  /\ frame' = [frame EXCEPT ![p] = AfterLastPart(f)]
                  /\ pc' = [pc EXCEPT ![p] = "manifest"]
             ELSE /\ Catch(p, WriteError(gcs_path))
                  /\ UNCHANGED store
    /\ UNCHANGED <<ledger, result, execs, authVars>>

\* total_rows, the manifest and _write_manifest (186-211)
WriteManifest(p, ok) ==
    /\ pc[p] = "manifest"
    /\ LET f == [frame[p] EXCEPT !.total_rows = SumRows(frame[p].parts)]
           manifest == BuildManifest(f, Bucket)
           manifest_path == GcsPath(Bucket, f.statement_handle, ManifestName)
           obj == [kind |-> "manifest", manifest |-> manifest]
       IN /\ Log(p, Event("write", ok, "", <<>>, manifest_path, obj))
          /\ IF ok
             THEN /\ store' = Put(store, manifest_path, obj)
                  /\ frame' = [frame EXCEPT ![p] = [f EXCEPT !.manifest = <<manifest>>]]
                  /\ pc' = [pc EXCEPT ![p] = "set_completed"]
             ELSE /\ pc' = [pc EXCEPT ![p] = "except"]
                  /\ frame' = [frame EXCEPT ![p] = [f EXCEPT !.exc = WriteError(manifest_path)]]
                  /\ UNCHANGED store
    /\ UNCHANGED <<ledger, result, execs, authVars>>

\* the COMPLETED update (213-224)
UpdateCompleted(p, ok) ==
    /\ pc[p] = "set_completed"
    /\ DoUpdate(p, Accepts(p, ok), CompletedPayload(frame[p], Bucket))
    /\ IF Accepts(p, ok)
       THEN /\ pc' = [pc EXCEPT ![p] = "audit"]
            /\ UNCHANGED frame
       ELSE Catch(p, LedgerError("completed"))
    /\ UNCHANGED <<store, result, execs, authVars>>

\* the execution log and logger.audit, still inside the try block (226-232)
AuditLog(p, ok) ==
    /\ pc[p] = "audit"
    /\ Log(p, Event("audit", ok, "", <<>>, <<>>, <<>>))
    /\ IF ok
       THEN /\ pc' = [pc EXCEPT ![p] = "done"]
            /\ result' = [result EXCEPT ![p] = Returned]
            /\ UNCHANGED frame
       ELSE /\ Catch(p, AuditError)
            /\ UNCHANGED result
    /\ UNCHANGED <<ledger, store, execs, authVars>>

\* mutant: the handler deletes the objects written under the handle
UpdateFailedRollback(p, ok) ==
    /\ pc[p] = "except"
    /\ DoUpdate(p, Accepts(p, ok), FailedPayload(frame[p].exc))
    /\ pc' = [pc EXCEPT ![p] = "done"]
    /\ result' = [result EXCEPT ![p] =
            IF Accepts(p, ok) THEN Raised(frame[p].exc) ELSE Raised(LedgerError("failed"))]
    /\ store' = [q \in {r \in DOMAIN store : r[3] # frame[p].statement_handle} |-> store[q]]
    /\ UNCHANGED <<frame, execs, authVars>>

\* the handler: the FAILED update, then `raise` (234-245)
UpdateFailed(p, ok) ==
    /\ pc[p] = "except"
    /\ DoUpdate(p, Accepts(p, ok), FailedPayload(frame[p].exc))
    /\ pc' = [pc EXCEPT ![p] = "done"]
    /\ result' = [result EXCEPT ![p] =
            IF Accepts(p, ok) THEN Raised(frame[p].exc) ELSE Raised(LedgerError("failed"))]
    /\ UNCHANGED <<store, frame, execs, authVars>>

\* every step of a call after it was entered, but the pull of a batch
Step(p) ==
    \/ \E ok \in BOOLEAN : GetJob(p, ok)
    \/ \E ok \in BOOLEAN : UpdateMissingSql(p, ok)
    \/ \E ok \in BOOLEAN : UpdateExecuting(p, ok)
    \/ \E ok \in BOOLEAN : OpenEngine(p, ok)
    \/ PullFail(p)
    \/ PullEnd(p)
    \/ \E ok \in BOOLEAN : WritePart(p, ok)
    \/ \E ok \in BOOLEAN : WriteLastPart(p, ok)
    \/ \E ok \in BOOLEAN : WriteManifest(p, ok)
    \/ \E ok \in BOOLEAN : UpdateCompleted(p, ok)
    \/ \E ok \in BOOLEAN : AuditLog(p, ok)
    \/ \E ok \in BOOLEAN : UpdateFailed(p, ok)

Caller == 1

\* Spec: one call of process_statement, on any handle, with any stream of
\* at most MaxBatches batches and a failure possible at every collaborator call.
Next ==
    \/ \E h \in Handles, db_ok \in BOOLEAN : Start(Caller, h, db_ok)
    \/ \E b \in BatchKinds : PullBatch(Caller, b)
    \/ Step(Caller)

Spec == Init /\ [][Next]_vars

\* SeqSpec: up to MaxExecs calls one after another (a handle may be executed
\* again), over the streams of batches that each fill half a part: one batch
\* is a remainder, two are a flushed part, three are a flushed part and a
\* remainder.
SeqHandles == {"h1", "h3", "h5"}

SeqBatchKinds == {b \in BatchKinds : b.id = "s"}

SeqNext ==
    \/ \E h \in SeqHandles, db_ok \in BOOLEAN : Start(Caller, h, db_ok)
    \/ \E h \in SeqHandles, db_ok \in BOOLEAN : StartAgain(Caller, h, db_ok)
    \/ \E b \in SeqBatchKinds : PullBatch(Caller, b)
    \/ Step(Caller)

SeqSpec == Init /\ [][SeqNext]_vars

\* ConcSpec: two calls of process_statement on distinct handles, run by the
\* submit endpoint on the threads of the default executor and interleaved at
\* every collaborator call.
ConcHandles == [p \in Procs |-> IF p = 1 THEN {"h1"} ELSE {"h2", "h3"}]

ConcNext ==
    \E p \in Procs :
        \/ \E h \in ConcHandles[p], db_ok \in BOOLEAN : Start(p, h, db_ok)
        \/ \E b \in SeqBatchKinds : PullBatch(p, b)
        \/ Step(p)

ConcSpec == Init /\ [][ConcNext]_vars

\* ------------------------------------------------------ key store actions
workerVars == <<ledger, store, pc, frame, result, trace, execs>>

\* a call or a return of a key store operation of caller t: the operation,
\* its kid and argument, whether every backend call it made succeeded, whether
\* it raised, what it returned, and the day
KeyEvent(ev, t, op, kid, arg, ok, raised, value) ==
    [ev |-> ev, t |-> t, op |-> op, kid |-> kid, arg |-> arg, ok |-> ok,
     raised |-> raised, value |-> value, day |-> today]

IsStoreCall(e) == e.ev = "call" /\ e.op = "store_key"

\* the store_key calls made so far
StoresMade == Len(SelectSeq(keylog, IsStoreCall))

\* the loading caller has made its call
Loaded == \E i \in DOMAIN keylog : keylog[i].ev = "call" /\ keylog[i].op # "store_key"

\* the calls made so far are of this kid: the storing caller stores its
\* pairs under one kid, that of the load when the load was called first
OfOneKid(kid) == \A i \in DOMAIN keylog : keylog[i].kid = kid

\* the key pairs the storing caller brings, one to each store_key call
StoredPairs == << [priv |-> "priv-A", pub |-> "pub-A"], [priv |-> "priv-B", pub |-> "pub-B"] >>

\* store_key(kid, priv_pem, pub_pem) is called: expires_at is fixed (139-148)
StoreKeyCall(t, kid, pair) ==
    /\ keycall[t] = NoCall
    /\ StoresMade < Len(StoredPairs)
    /\ OfOneKid(kid)
    /\ keycall' = [keycall EXCEPT ![t] =
            [op |-> "store_key", kid |-> kid, pair |-> pair, pc |-> "id",
             suffix |-> "private", expires_at |-> ExpiresAt(today), secret_id |-> <<>>]]
    /\ keylog' = Append(keylog, KeyEvent("call", t, "store_key", kid, <<pair>>, TRUE, FALSE, <<>>))
    /\ UNCHANGED <<workerVars, today, secrets, request, http, response, auditVars>>

\* store_key: the secret id of the half, from the clock as it is now (150)
StoreKeyId(t) ==
    /\ keycall[t].op = "store_key"
    /\ keycall[t].pc = "id"
    /\ LET c == keycall[t]
       IN keycall' = [keycall EXCEPT ![t] =
              [c EXCEPT !.pc = "create",
                        !.secret_id = _date_secret_id_for_kid(c.kid, c.suffix, today)]]
    /\ UNCHANGED <<workerVars, today, secrets, keylog, request, http, response, auditVars>>

\* store_key: create_secret of the secret id computed; an error other than
\* AlreadyExists leaves store_key (154-167)
StoreKeyCreate(t, ok) ==
    /\ keycall[t].op = "store_key"
    /\ keycall[t].pc = "create"
    /\ LET c == keycall[t]
       IN IF ok
          THEN /\ secrets' = CreateSecret(secrets, c.secret_id)
               /\ keycall' = [keycall EXCEPT ![t] = [c EXCEPT !.pc = "add"]]
               /\ UNCHANGED keylog
          ELSE /\ keycall' = [keycall EXCEPT ![t] = NoCall]
               /\ keylog' = Append(keylog,
                      KeyEvent("return", t, "store_key", c.kid, <<c.pair>>, FALSE, TRUE, <<>>))
               /\ UNCHANGED secrets
    /\ UNCHANGED <<workerVars, today, request, http, response, auditVars>>

\* store_key: add_secret_version of the half, then the other half or
\* `return`; its error leaves store_key (169-178)
StoreKeyAdd(t, ok) ==
    /\ keycall[t].op = "store_key"
    /\ keycall[t].pc = "add"
    /\ LET c == keycall[t]
           pem == IF c.suffix = "private" THEN c.pair.priv ELSE c.pair.pub
       IN IF ~ok
          THEN /\ keycall' = [keycall EXCEPT ![t] = NoCall]
               /\ keylog' = Append(keylog,
                      KeyEvent("return", t, "store_key", c.kid, <<c.pair>>, FALSE, TRUE, <<>>))
               /\ UNCHANGED secrets
          ELSE /\ secrets' = AddSecretVersion(secrets, c.secret_id,
                                              Payload(c.kid, pem, c.expires_at))
               /\ IF c.suffix = "private"
                  THEN /\ keycall' = [keycall EXCEPT ![t] =
                               [c EXCEPT !.pc = "id", !.suffix = "public"]]
                       /\ UNCHANGED keylog
                  ELSE /\ keycall' = [keycall EXCEPT ![t] = NoCall]
                       /\ keylog' = Append(keylog,
                              KeyEvent("return", t, "store_key", c.kid, <<c.pair>>,
                                       TRUE, FALSE, <<>>))
    /\ UNCHANGED <<workerVars, today, request, http, response, auditVars>>

\* load_key(kid) is called: the id of the private secret, from the clock as
\* it is now (181-188)
LoadKeyCall(t, kid) ==
    /\ keycall[t] = NoCall
    /\ ~Loaded
    /\ keycall' = [keycall EXCEPT ![t] =
            [op |-> "load_key", kid |-> kid, suffix |-> "private", pc |-> "pub_id",
             priv_secret_id |-> _date_secret_id_for_kid(kid, "private", today),
             pub_secret_id |-> <<>>,
             priv |-> <<>>, vers |-> <<>>, create |-> "private", secret_id |-> <<>>,
             ok |-> TRUE]]
    /\ keylog' = Append(keylog, KeyEvent("call", t, "load_key", kid, <<>>, TRUE, FALSE, <<>>))
    /\ UNCHANGED <<workerVars, today, secrets, request, http, response, auditVars>>

\* load_key: the id of the public secret, from the clock as it is now (189)
LoadKeyPubId(t) ==
    /\ keycall[t].op = "load_key"
    /\ keycall[t].pc = "pub_id"
    /\ LET c == keycall[t]
       IN keycall' = [keycall EXCEPT ![t] =
              [c EXCEPT !.pc = "list",
                        !.pub_secret_id = _date_secret_id_for_kid(c.kid, "public", today)]]
    /\ UNCHANGED <<workerVars, today, secrets, keylog, request, http, response, auditVars>>

\* load_key: a _find_pem has returned pem (<<>>: None), all its backend calls
\* having answered or not: the private pem is kept and the public half is
\* next, or load_key returns (258-264)
EndFind(t, pem, ok) ==
    LET c == keycall[t]
    IN IF c.suffix = "private"
       THEN /\ keycall' = [keycall EXCEPT ![t] =
                    [c EXCEPT !.suffix = "public", !.pc = "list", !.priv = pem,
                              !.vers = <<>>, !.create = "private", !.secret_id = <<>>,
                              !.ok = ok]]
            /\ UNCHANGED keylog
       ELSE /\ keycall' = [keycall EXCEPT ![t] = NoCall]
            /\ keylog' = Append(keylog,
                   KeyEvent("return", t, "load_key", c.kid, <<>>, ok, FALSE,
                            LoadKeyValue(c.priv, pem)))

\* _find_pem: list_secret_versions. NotFound goes on to create the daily
\* secrets, another error returns None, an empty list returns None, else the
\* versions listed are accessed, newest first (193-235)
LoadKeyList(t, listing) ==
    /\ keycall[t].op = "load_key"
    /\ keycall[t].pc = "list"
    /\ LET c == keycall[t]
           secret_id == IF c.suffix = "private" THEN c.priv_secret_id ELSE c.pub_secret_id
       IN IF listing # "ok" THEN EndFind(t, <<>>, FALSE)
          ELSE IF secret_id \notin DOMAIN secrets
          THEN /\ keycall' = [keycall EXCEPT ![t] = [c EXCEPT !.pc = "id"]]
               /\ UNCHANGED keylog
          ELSE IF secrets[secret_id] = <<>> THEN EndFind(t, <<>>, c.ok)
          ELSE /\ keycall' = [keycall EXCEPT ![t] =
                       [c EXCEPT !.pc = "access", !.vers = secrets[secret_id]]]
               /\ UNCHANGED keylog
    /\ UNCHANGED <<workerVars, today, secrets, request, http, response, auditVars>>

\* _find_pem on a missing secret: the id of one of the two daily secrets of
\* the kid, from the clock as it is now (203-204)
LoadKeyId(t) ==
    /\ keycall[t].op = "load_key"
    /\ keycall[t].pc = "id"
    /\ LET c == keycall[t]
       IN keycall' = [keycall EXCEPT ![t] =
              [c EXCEPT !.pc = "create",
                        !.secret_id = _date_secret_id_for_kid(c.kid, c.create, today)]]
    /\ UNCHANGED <<workerVars, today, secrets, keylog, request, http, response, auditVars>>

\* _find_pem on a missing secret: create_secret of the id computed; an error
\* of the call is ignored; after the second, _find_pem returns None (205-227)
LoadKeyCreate(t, ok) ==
    /\ keycall[t].op = "load_key"
    /\ keycall[t].pc = "create"
    /\ LET c == keycall[t]
       IN /\ secrets' = IF ok THEN CreateSecret(secrets, c.secret_id) ELSE secrets
          /\ IF c.create = "private"
             THEN /\ keycall' = [keycall EXCEPT ![t] =
                          [c EXCEPT !.pc = "id", !.create = "public", !.ok = c.ok /\ ok]]
                  /\ UNCHANGED keylog
             ELSE EndFind(t, <<>>, c.ok /\ ok)
    /\ UNCHANGED <<workerVars, today, request, http, response, auditVars>>

\* _find_pem: access_secret_version of the newest version not yet seen and
\* the checks of its payload, the clock read now; the version is returned, or
\* it is passed over and the next one follows; after the last, None (235-256)
LoadKeyAccess(t, access) ==
    /\ keycall[t].op = "load_key"
    /\ keycall[t].pc = "access"
    /\ LET c == keycall[t]
           pem == FindPemVersion(c.vers[Len(c.vers)], c.kid, today, access)
           rest == SubSeq(c.vers, 1, Len(c.vers) - 1)
           ok == c.ok /\ access = "ok"
       IN IF pem # <<>> \/ rest = <<>> THEN EndFind(t, pem, ok)
          ELSE /\ keycall' = [keycall EXCEPT ![t] = [c EXCEPT !.vers = rest, !.ok = ok]]
               /\ UNCHANGED keylog
    /\ UNCHANGED <<workerVars, today, secrets, request, http, response, auditVars>>

\* load_public_key(kid) is called: the id of the public secret, from the
\* clock as it is now (267-277)
CallPublic(t, kid) ==
    /\ keycall[t] = NoCall
    /\ keycall' = [keycall EXCEPT ![t] =
            [op |-> "load_public_key", kid |-> kid, pc |-> "list",
             pub_secret_id |-> _date_secret_id_for_kid(kid, "public", today),
             vers |-> <<>>, ok |-> TRUE]]
    /\ keylog' = Append(keylog,
           KeyEvent("call", t, "load_public_key", kid, <<>>, TRUE, FALSE, <<>>))

\* the loading caller calls load_public_key(kid)
LoadPublicCall(t, kid) ==
    /\ ~Loaded
    /\ CallPublic(t, kid)
    /\ UNCHANGED <<workerVars, today, secrets, request, http, response, auditVars>>

\* load_public_key returns pem (<<>>: None), or the exception exc leaves it
\* (<<>>: none does)
EndPublic(t, exc, pem, ok) ==
    /\ keycall' = [keycall EXCEPT ![t] = NoCall]
    /\ keylog' = Append(keylog,
           KeyEvent("return", t, "load_public_key", keycall[t].kid, <<>>, ok, exc # <<>>, pem)
               @@ [exc |-> exc])

\* load_public_key: list_secret_versions (278-286)
LoadPublicList(t, listing) ==
    /\ keycall[t].op = "load_public_key"
    /\ keycall[t].pc = "list"
    /\ LET c == keycall[t]
           listed == ListPublic(secrets, c.pub_secret_id, listing)
       IN /\ secrets' = listed.secrets
          /\ IF listed.next = "raise" THEN EndPublic(t, <<BackendError>>, <<>>, FALSE)
             ELSE IF listed.next = "none" THEN EndPublic(t, <<>>, <<>>, listing = "ok")
             ELSE IF secrets[c.pub_secret_id] = <<>> THEN EndPublic(t, <<>>, <<>>, TRUE)
             ELSE /\ keycall' = [keycall EXCEPT ![t] =
                          [c EXCEPT !.pc = "access", !.vers = secrets[c.pub_secret_id]]]
                  /\ UNCHANGED keylog
    /\ UNCHANGED <<workerVars, today, request, http, response, auditVars>>

\* load_public_key: access_secret_version of the newest version not yet seen
\* and the checks of its payload, the clock read now (291-318)
LoadPublicAccess(t, access) ==
    /\ keycall[t].op = "load_public_key"
    /\ keycall[t].pc = "access"
    /\ LET c == keycall[t]
           v == PublicVersion(c.vers[Len(c.vers)], c.kid, today, access)
           rest == SubSeq(c.vers, 1, Len(c.vers) - 1)
           ok == c.ok /\ access = "ok"
       IN IF v.next = "raise" THEN EndPublic(t, v.exc, <<>>, ok)
          ELSE IF v.next = "return" THEN EndPublic(t, <<>>, v.pem, ok)
          ELSE IF rest = <<>> THEN EndPublic(t, <<>>, <<>>, ok)
          ELSE /\ keycall' = [keycall EXCEPT ![t] = [c EXCEPT !.vers = rest, !.ok = ok]]
               /\ UNCHANGED keylog
    /\ UNCHANGED <<workerVars, today, secrets, request, http, response, auditVars>>

\* midnight passes; the first call is made on the first day
NextDay ==
    /\ today < FirstDay + MaxDays - 1
    /\ keylog # <<>>
    /\ today' = today + 1
    /\ UNCHANGED <<workerVars, secrets, keylog, keycall, request, http, response, auditVars>>

\* KeySpec: two callers of the key store over MaxDays days, on a backend that
\* is empty or holds a key of another writer. One caller makes a store_key
\* call for each pair of StoredPairs, the other one load_key call, of the
\* kid stored or the other one; every clock reading and every backend
\* call is a step of its own, so the calls interleave at their backend calls
\* with each other and with midnight, and each backend call may raise.
KeyInit ==
    /\ ledger = InitialLedger
    /\ store = [q \in {} |-> <<>>]
    /\ pc = [p \in Procs |-> "idle"]
    /\ frame = [p \in Procs |-> NewFrame("")]
    /\ result = [p \in Procs |-> Running]
    /\ trace = [p \in Procs |-> <<>>]
    /\ execs = 0
    /\ today = FirstDay
    /\ secrets \in Backends
    /\ keylog = <<>>
    /\ keycall = [p \in Procs |-> NoCall]
    /\ request = [p \in Procs |-> NoRequest]
    /\ http = [p \in Procs |-> "direct"]
    /\ response = [p \in Procs |-> NoResponse]
    /\ audited = [p \in Procs |-> <<>>]
    /\ client = [p \in Procs |-> NoClient]

Storer == 1
Loader == 2

\* the pair of the next store_key call
NextPair == StoredPairs[IF StoresMade < Len(StoredPairs) THEN StoresMade + 1 ELSE Len(StoredPairs)]

KeyNext ==
    \/ \E kid \in Kids : StoreKeyCall(Storer, kid, NextPair)
    \/ StoreKeyId(Storer)
    \/ \E ok \in BOOLEAN : StoreKeyCreate(Storer, ok)
    \/ \E ok \in BOOLEAN : StoreKeyAdd(Storer, ok)
    \/ \E kid \in Kids : LoadKeyCall(Loader, kid)
    \/ LoadKeyPubId(Loader)
    \/ \E listing \in {"ok", "error"} : LoadKeyList(Loader, listing)
    \/ LoadKeyId(Loader)
    \/ \E ok \in BOOLEAN : LoadKeyCreate(Loader, ok)
    \/ \E access \in {"ok", "error"} : LoadKeyAccess(Loader, access)
    \/ NextDay

KeySpec == KeyInit /\ [][KeyNext]_vars

\* PublicKeySpec: as KeySpec, the loading caller making a load_public_key
\* call in place of the load_key call.
PublicKeyNext ==
    \/ \E kid \in Kids : StoreKeyCall(Storer, kid, NextPair)
    \/ StoreKeyId(Storer)
    \/ \E ok \in BOOLEAN : StoreKeyCreate(Storer, ok)
    \/ \E ok \in BOOLEAN : StoreKeyAdd(Storer, ok)
    \/ \E kid \in Kids : LoadPublicCall(Loader, kid)
    \/ \E listing \in CallOutcomes : LoadPublicList(Loader, listing)
    \/ \E access \in CallOutcomes : LoadPublicAccess(Loader, access)
    \/ NextDay

PublicKeySpec == KeyInit /\ [][PublicKeyNext]_vars

\* ---------------------------------------------------------- submit actions
\* submit calls validate_token_from_request (16): a header without a bearer
\* token and a token whose header does not parse or has no kid are refused,
\* load_public_key not being reached; else load_public_key(kid) is called
\* (auth.py 69-75, 43-52)
Authenticate(p) ==
    /\ http[p] = "received"
    /\ LET token == _extract_bearer_token(request[p].authorization)
       IN IF token # <<>> /\ UnverifiedKid(token[1]).kind = "kid"
          THEN /\ CallPublic(p, UnverifiedKid(token[1]).kid)
               /\ http' = [http EXCEPT ![p] = "lookup"]
               /\ UNCHANGED response
          ELSE /\ http' = [http EXCEPT ![p] = "responded"]
               /\ response' = [response EXCEPT ![p] =
                       validate_token_from_request(request[p].authorization, GPC_SUBJECT,
                                                   [next |-> "none"])]
               /\ UNCHANGED <<keylog, keycall>>
    /\ UNCHANGED <<workerVars, today, secrets, request, auditVars>>

\* load_public_key has returned or raised, as the last event of p in the log
\* tells: the rest of validate_token (auth.py 52-66) and submit's check of
\* sub (17-19)
Validate(p) ==
    /\ http[p] = "lookup"
    /\ keycall[p] = NoCall
    /\ LET e == keylog[CHOOSE i \in DOMAIN keylog :
                          /\ keylog[i].t = p
                          /\ \A k \in DOMAIN keylog : keylog[k].t = p => k <= i]
       IN \E r \in {validate_token_from_request(
                        request[p].authorization, GPC_SUBJECT,
                        [next |-> IF e.raised THEN "raise" ELSE "return",
                         exc |-> e.exc, pem |-> e.value])} :
             IF r.kind \in {"http_exception", "raised"}
             THEN /\ http' = [http EXCEPT ![p] = "responded"]
                  /\ response' = [response EXCEPT ![p] = r]
             ELSE IF DictGet(r.claims, "sub") # <<GPC_SUBJECT>>
             THEN /\ http' = [http EXCEPT ![p] = "responded"]
                  /\ response' = [response EXCEPT ![p] =
                          HTTPException(401, "Token subject mismatch")]
             ELSE /\ http' = [http EXCEPT ![p] = "body"]
                  /\ UNCHANGED response
    /\ UNCHANGED <<workerVars, keyVars, request, auditVars>>

\* submit: request.json() and job.get("execution_id") (21-25)
ReadBody(p) ==
    /\ http[p] = "body"
    /\ IF Falsy(DictGet(request[p].body, "execution_id"))
       THEN /\ http' = [http EXCEPT ![p] = "responded"]
            /\ response' = [response EXCEPT ![p] = HTTPException(400, "Missing execution_id")]
       ELSE /\ http' = [http EXCEPT ![p] = "invoke"]
            /\ UNCHANGED response
    /\ UNCHANGED <<workerVars, keyVars, request, auditVars>>

\* submit: run_in_executor(None, process_statement, execution_id) (28-31)
Invoke(p, db_ok) ==
    /\ http[p] = "invoke"
    /\ pc[p] = "idle"
    /\ Enter(p, request[p].body.execution_id, db_ok)
    /\ http' = [http EXCEPT ![p] = "running"]
    /\ UNCHANGED <<keyVars, request, response, auditVars>>

\* mutant: submit answers as soon as the call is handed to the executor
RespondWithoutAwait(p) ==
    /\ http[p] = "running"
    /\ http' = [http EXCEPT ![p] = "responded"]
    /\ response' = [response EXCEPT ![p] =
            [kind |-> "returned", status |-> 202, body |-> <<>>]]
    /\ UNCHANGED <<workerVars, keyVars, request, auditVars>>

\* submit: the awaited call ended; `return`, or its exception propagates (31-33)
Respond(p) ==
    /\ http[p] = "running"
    /\ pc[p] = "done"
    /\ http' = [http EXCEPT ![p] = "responded"]
    /\ response' = [response EXCEPT ![p] =
            IF result[p] = Returned
            THEN [kind |-> "returned", status |-> 202, body |-> <<>>]
            ELSE [kind |-> "raised", exc |-> result[p].exc]]
    /\ UNCHANGED <<workerVars, keyVars, request, auditVars>>

\* AuditMiddleware.dispatch once call_next has ended: the status and the
\* response, the payload, logger.audit(payload), `return response`; an
\* exception of logger.audit other than AttributeError leaves dispatch (14-102)
Dispatch(p, logger) ==
    /\ http[p] = "responded"
    /\ client[p] = NoClient
    /\ audited' = [audited EXCEPT ![p] =
            Append(@, [payload |-> AuditPayload(request[p], CallNext(response[p])),
                       outcome |-> logger])]
    /\ client' = [client EXCEPT ![p] =
            IF logger = "raises"
            THEN [kind |-> "raised", exc |-> AuditError]
            ELSE [kind |-> "response", status |-> StatusOf(CallNext(response[p]))]]
    /\ UNCHANGED <<workerVars, keyVars, request, http, response>>

\* ApiSpec: one request to submit, any of Requests, with the key of TextKid
\* stored that day, and the call of process_statement it leads to. While the
\* key of the token is looked up another caller stores a second pair under
\* the kid, its public pem given or the empty string, each backend call a
\* step of its own, and midnight may pass; the
\* backend calls of the lookup interleave with these and may raise.
ApiInit ==
    /\ ledger = InitialLedger
    /\ store = [q \in {} |-> <<>>]
    /\ pc = [p \in Procs |-> "idle"]
    /\ frame = [p \in Procs |-> NewFrame("")]
    /\ result = [p \in Procs |-> Running]
    /\ trace = [p \in Procs |-> <<>>]
    /\ execs = 0
    /\ today = FirstDay
    /\ secrets = StoreKeyEffect(NoSecrets, TextKid,
                                [priv |-> "priv-A", pub |-> "pub-A"], FirstDay, 0)
    /\ keylog = <<>>
    /\ keycall = [p \in Procs |-> NoCall]
    /\ \E r \in Requests : request = [p \in Procs |-> IF p = Caller THEN r ELSE NoRequest]
    /\ http = [p \in Procs |-> IF p = Caller THEN "received" ELSE "direct"]
    /\ response = [p \in Procs |-> NoResponse]
    /\ audited = [p \in Procs |-> <<>>]
    /\ client = [p \in Procs |-> NoClient]

ApiNext ==
    \/ Authenticate(Caller)
    \/ \E listing \in CallOutcomes : LoadPublicList(Caller, listing)
    \/ \E access \in CallOutcomes : LoadPublicAccess(Caller, access)
    \/ Validate(Caller)
    \/ \E k \in Procs \ {Caller} : \E pub_pem \in {StoredPairs[2].pub, ""} :
           http[Caller] = "lookup" /\ StoresMade = 0
               /\ StoreKeyCall(k, TextKid, [StoredPairs[2] EXCEPT !.pub = pub_pem])
    \/ \E k \in Procs \ {Caller} : http[Caller] = "lookup" /\ StoreKeyId(k)
    \/ \E k \in Procs \ {Caller} : http[Caller] = "lookup" /\ StoreKeyCreate(k, TRUE)
    \/ \E k \in Procs \ {Caller} : http[Caller] = "lookup" /\ StoreKeyAdd(k, TRUE)
    \/ http[Caller] = "lookup" /\ NextDay
    \/ ReadBody(Caller)
    \/ \E db_ok \in BOOLEAN : Invoke(Caller, db_ok)
    \/ \E b \in SeqBatchKinds : PullBatch(Caller, b)
    \/ Step(Caller)
    \/ Respond(Caller)
    \/ \E logger \in LoggerOutcomes : Dispatch(Caller, logger)

ApiSpec == ApiInit /\ [][ApiNext]_vars

\* ----------------------------------------------------------------- claims
Terminal == {"COMPLETED", "FAILED"}

Done(p) == pc[p] = "done"

Handle(p) == frame[p].statement_handle

\* the collaborator calls of p's call that satisfy Test, in order
Events(p, Test(_)) == SelectSeq(trace[p], Test)

IsUpdate(e) == e.op = "update"
IsAcceptedTerminal(e) == e.op = "update" /\ e.ok /\ e.status \in Terminal
IsExecutingUpdate(e) == e.op = "update" /\ e.status = "EXECUTING"
IsFailedUpdate(e) == e.op = "update" /\ e.status = "FAILED"
IsEngineCall(e) == e.op \in {"open", "pull", "pull_end"}
IsWrite(e) == e.op = "write"
IsPartWrite(e) == e.op = "write" /\ e.obj.kind = "parquet"
IsWrittenPart(e) == e.op = "write" /\ e.ok /\ e.obj.kind = "parquet"
IsWrittenManifest(e) == e.op = "write" /\ e.ok /\ e.obj.kind = "manifest"

WroteManifest(p) == Events(p, IsWrittenManifest) # <<>>

\* the manifest p's call wrote
Manifest(p) == Events(p, IsWrittenManifest)[1].obj.manifest

RECURSIVE SumNumRows(_)
SumNumRows(batches) ==
    IF batches = <<>> THEN 0 ELSE Head(batches).num_rows + SumNumRows(Tail(batches))

RECURSIVE SumApproxSize(_)
SumApproxSize(parts) ==
    IF parts = <<>> THEN 0 ELSE Head(parts).approx_size + SumApproxSize(Tail(parts))

\* the exception a failed collaborator call raises
CauseOf(e) ==
    CASE e.op = "update" /\ e.status = "EXECUTING" -> LedgerError("executing")
      [] e.op = "update" /\ e.status = "COMPLETED" -> LedgerError("completed")
      [] e.op \in {"open", "pull"} -> EngineError
      [] e.op = "write" -> WriteError(e.path)
      [] e.op = "audit" -> AuditError
      [] OTHER -> NoExc

\* a failure in steps 3-8: the EXECUTING update, the engine, a part or
\* manifest write, the COMPLETED update
FailsInSteps3To8(e) ==
    /\ ~e.ok
    /\ \/ e.op = "update" /\ e.status \in {"EXECUTING", "COMPLETED"}
       \/ e.op \in {"open", "pull", "write"}

\* C1 (as claimed): when a call that found the job with a non-empty sql_text
\* has ended (returned or raised), whatever failed, the job's ledger status is
\* COMPLETED or FAILED and the call wrote exactly one terminal status.
C1_OneTerminalStatus ==
    \A p \in Procs :
        (Done(p) /\ ~Falsy(frame[p].sql)) =>
            /\ ledger[Handle(p)].status \in Terminal
            /\ Len(Events(p, IsAcceptedTerminal)) = 1

\* C2 (as claimed): an exception raised in steps 3-8 is caught once: the call
\* issues one FAILED update whose error is the stringified exception and,
\* when the ledger accepts that update, raises that same exception.
C2_CaughtOnceAndReraised ==
    \A p \in Procs :
        Done(p) =>
            \A i \in 1..Len(trace[p]) :
                FailsInSteps3To8(trace[p][i]) =>
                    LET failed == Events(p, IsFailedUpdate)
                        cause == CauseOf(trace[p][i])
                    IN /\ Len(failed) = 1
                       /\ failed[1].error = <<Str(cause)>>
                       /\ failed[1].ok => result[p] = Raised(cause)

\* C3 (as claimed): once a job's ledger status is COMPLETED or FAILED, no
\* step of this or of a later call changes it to a different value.
C3_TerminalIsFinal ==
    [][\A h \in DOMAIN ledger :
          ledger[h].status \in Terminal => ledger'[h].status = ledger[h].status]_vars

\* C4: the rows of the parts listed in a manifest sum to the rows of the
\* batches the engine emitted in that call.
C4_RowsConserved ==
    \A p \in Procs :
        WroteManifest(p) =>
            SumRows(Manifest(p).parts) = SumNumRows(frame[p].emitted)

C4_Witness ==
    \E p \in Procs :
        /\ Done(p) /\ WroteManifest(p)
        /\ Len(Manifest(p).parts) = 2
        /\ Len(frame[p].emitted) = 3
        /\ SumNumRows(frame[p].emitted) > 0

\* C5: the i-th part write of a call, flushed or final, goes to the part name
\* of index i-1, and the parts recorded carry the indices 0, 1, 2, ... in order.
C5_ContiguousIndices ==
    \A p \in Procs :
        LET w == Events(p, IsPartWrite)
        IN /\ \A i \in 1..Len(w) :
                  w[i].path = GcsPath(Bucket, Handle(p), PartName(i - 1))
           /\ \A i \in 1..Len(frame[p].parts) :
                  frame[p].parts[i].name = PartName(i - 1)

C5_Witness ==
    \E p \in Procs :
        /\ Done(p)
        /\ Len(Events(p, IsWrittenPart)) = 3
        /\ ~ShouldFlush(frame[p].parts[3].approx_size)

\* C6: in a manifest every part but the last has approx_size at or above
\* the threshold.
C6_OnlyLastBelowThreshold ==
    \A p \in Procs :
        WroteManifest(p) =>
            \A i \in 1..(Len(Manifest(p).parts) - 1) :
                Manifest(p).parts[i].approx_size >= SIZE_THRESHOLD_BYTES

C6_Witness ==
    \E p \in Procs :
        /\ WroteManifest(p)
        /\ Len(Manifest(p).parts) = 2
        /\ Manifest(p).parts[1].approx_size = SIZE_THRESHOLD_BYTES
        /\ Manifest(p).parts[2].approx_size < SIZE_THRESHOLD_BYTES

\* C7: in a manifest total_size_estimate is the sum of the parts' approx_size
\* and total_parts is the number of parts listed.
C7_ManifestTotals ==
    \A p \in Procs :
        WroteManifest(p) =>
            /\ Manifest(p).total_size_estimate = SumApproxSize(Manifest(p).parts)
            /\ Manifest(p).total_parts = Len(Manifest(p).parts)

C7_Witness ==
    \E p \in Procs :
        /\ WroteManifest(p)
        /\ Manifest(p).total_parts = 2
        /\ Manifest(p).parts[2].approx_size > 0
        /\ Manifest(p).parts[2].approx_size < SIZE_THRESHOLD_BYTES
        /\ Manifest(p).total_size_estimate > SIZE_THRESHOLD_BYTES

\* C8: a call whose handle has no ledger record raises the not-found error
\* and makes no ledger update, no engine call and no object-store write.
C8_NotFoundNoEffects ==
    \A p \in Procs :
        (Done(p) /\ Handle(p) \notin DOMAIN ledger) =>
            /\ Events(p, IsUpdate) = <<>>
            /\ Events(p, IsEngineCall) = <<>>
            /\ Events(p, IsWrite) = <<>>
            /\ result[p].kind = "raised"
            /\ (trace[p] # <<>> /\ trace[p][1].ok) =>
                    /\ result[p].exc.type = "ValueError"
                    /\ Str(result[p].exc) = "No job found for handle: " \o Handle(p)

C8_Witness ==
    \E p \in Procs :
        /\ Done(p) /\ Handle(p) = "h5"
        /\ trace[p] # <<>> /\ trace[p][1].ok
        /\ result[p].exc.type = "ValueError"

\* C9: a call on a job whose sql_text is absent or empty issues exactly one
\* ledger update, FAILED with error "missing sql_text", never EXECUTING, makes
\* no engine call and no object-store write, and once the ledger has taken
\* the update returns normally with the job FAILED.
C9_MissingSqlFailsQuietly ==
    \A p \in Procs :
        (/\ Done(p)
         /\ Handle(p) \in DOMAIN ledger
         /\ Falsy(DictGet(ledger[Handle(p)], "sql_text"))
         /\ trace[p] # <<>> /\ trace[p][1].ok) =>
            LET u == Events(p, IsUpdate)
            IN /\ Len(u) = 1
               /\ u[1].status = "FAILED"
               /\ u[1].error = <<"missing sql_text">>
               /\ Events(p, IsExecutingUpdate) = <<>>
               /\ Events(p, IsEngineCall) = <<>>
               /\ Events(p, IsWrite) = <<>>
               /\ u[1].ok =>
                    /\ result[p] = Returned
                    /\ ledger[Handle(p)].status = "FAILED"
                    /\ ledger[Handle(p)].error = "missing sql_text"

C9_Witness ==
    /\ \E p \in Procs :
          /\ Done(p) /\ Handle(p) = "h3" /\ result[p] = Returned
          /\ ledger["h3"].status = "FAILED"
    \/ \E p \in Procs :
          /\ Done(p) /\ Handle(p) = "h4" /\ result[p] = Returned
          /\ ledger["h4"].status = "FAILED"

\* C10: every part a call has written stays in the object store with the
\* content written, also after the call failed; and a call that failed in
\* the engine, a write, the COMPLETED update or the audit log issues the
\* FAILED update with that component's error message, which the ledger then
\* holds once it has taken the update.
C10_NoRollback ==
    \A p \in Procs :
        /\ \A i \in 1..Len(trace[p]) :
              IsWrittenPart(trace[p][i]) =>
                  /\ trace[p][i].path \in DOMAIN store
                  /\ store[trace[p][i].path] = trace[p][i].obj
        /\ (Done(p) /\ frame[p].exc # NoExc) =>
              LET n == Len(trace[p])
              IN /\ IsFailedUpdate(trace[p][n])
                 /\ ~trace[p][n - 1].ok
                 /\ frame[p].exc = CauseOf(trace[p][n - 1])
                 /\ trace[p][n].error = <<Str(CauseOf(trace[p][n - 1]))>>
                 /\ trace[p][n].ok =>
                      /\ ledger[Handle(p)].status = "FAILED"
                      /\ ledger[Handle(p)].error = Str(CauseOf(trace[p][n - 1]))

C10_Witness ==
    \E p \in Procs :
        /\ Done(p)
        /\ result[p] = Raised(EngineError)
        /\ Len(Events(p, IsWrittenPart)) = 2
        /\ ledger[Handle(p)].status = "FAILED"
        /\ ledger[Handle(p)].error = "engine failure"


IsAcceptedCompleted(e) == e.op = "update" /\ e.ok /\ e.status = "COMPLETED"
IsManifestWrite(e) == e.op = "write" /\ e.obj.kind = "manifest"

\* the batches of the parts written, in the order written
RECURSIVE ConcatBatches(_)
ConcatBatches(writes) ==
    IF writes = <<>> THEN <<>>
    ELSE Head(writes).obj.batches \o ConcatBatches(Tail(writes))

\* C11 (as claimed): when the FAILED update of the handler itself fails, the
\* call still raises the exception the handler caught (the original cause).
C11_OriginalCauseSurfaced ==
    \A p \in Procs :
        (/\ Done(p)
         /\ frame[p].exc # NoExc
         /\ IsFailedUpdate(trace[p][Len(trace[p])])
         /\ ~trace[p][Len(trace[p])].ok) =>
            result[p] = Raised(frame[p].exc)

\* C12: whenever a job's ledger status is COMPLETED, the manifest is in the
\* store at the path the ledger records, every part it lists is in the store
\* with the rows listed, and in the call that set COMPLETED the manifest and
\* each listed part were written before the COMPLETED update.
C12_CompletedMeansWritten ==
    /\ \A h \in DOMAIN ledger :
          ledger[h].status = "COMPLETED" =>
              /\ "result_manifest" \in DOMAIN ledger[h]
              /\ ledger[h].result_manifest \in DOMAIN store
              /\ store[ledger[h].result_manifest].kind = "manifest"
              /\ LET m == store[ledger[h].result_manifest].manifest
                 IN \A i \in 1..Len(m.parts) :
                        /\ m.parts[i].path \in DOMAIN store
                        /\ store[m.parts[i].path].kind = "parquet"
                        /\ SumNumRows(store[m.parts[i].path].batches) = m.parts[i].rows
    /\ \A p \in Procs :
          \A j \in 1..Len(trace[p]) :
              IsAcceptedCompleted(trace[p][j]) =>
                  /\ \E k \in 1..(j - 1) :
                        /\ IsWrittenManifest(trace[p][k])
                        /\ trace[p][k].path = ledger[Handle(p)].result_manifest
                  /\ \A i \in 1..Len(Manifest(p).parts) :
                        \E k \in 1..(j - 1) :
                            /\ IsWrittenPart(trace[p][k])
                            /\ trace[p][k].path = Manifest(p).parts[i].path

C12_Witness ==
    /\ execs = 2
    /\ ledger["h1"].status = "COMPLETED"
    /\ "error" \in DOMAIN ledger["h1"]
    /\ Len(store[ledger["h1"].result_manifest].manifest.parts) = 2
    /\ \E p \in Procs : Done(p) /\ result[p] = Returned

\* C13: a call writes the manifest at most once, only after the stream is
\* exhausted and every emitted batch is in a written part, with no engine
\* call or part write after it and no failed call before it; a call that set
\* COMPLETED wrote it exactly once.
C13_ManifestOnceAtEnd ==
    \A p \in Procs :
        /\ \A j \in 1..Len(trace[p]) :
              IsManifestWrite(trace[p][j]) =>
                  /\ \E k \in 1..(j - 1) : trace[p][k].op = "pull_end"
                  /\ \A k \in 1..(j - 1) : trace[p][k].ok
                  /\ \A k \in 1..Len(trace[p]) :
                        k # j => ~IsManifestWrite(trace[p][k])
                  /\ \A k \in (j + 1)..Len(trace[p]) :
                        /\ ~IsEngineCall(trace[p][k])
                        /\ ~IsPartWrite(trace[p][k])
                  /\ ConcatBatches(Events(p, IsWrittenPart)) = frame[p].emitted
        /\ (Done(p) /\ Events(p, IsAcceptedCompleted) # <<>>) =>
              Len(Events(p, IsWrittenManifest)) = 1

C13_Witness ==
    \E p \in Procs :
        /\ Done(p) /\ result[p] = Returned
        /\ Len(Events(p, IsWrittenManifest)) = 1
        /\ Len(Events(p, IsWrittenPart)) = 2
        /\ Len(frame[p].emitted) = 3


\* C14 (as claimed, but for the job without sql_text, which spec 4.3 sends
\* from QUEUED to FAILED): every status change written to the ledger is
\* QUEUED -> EXECUTING, EXECUTING -> COMPLETED or EXECUTING -> FAILED, so
\* that COMPLETED and FAILED are left by no update and EXECUTING is entered
\* only from QUEUED.
C14_ForwardOnly ==
    [][\A h \in DOMAIN ledger :
          ledger'[h].status # ledger[h].status =>
              \/ <<ledger[h].status, ledger'[h].status>> \in
                     { <<"QUEUED", "EXECUTING">>,
                       <<"EXECUTING", "COMPLETED">>,
                       <<"EXECUTING", "FAILED">> }
              \/ /\ <<ledger[h].status, ledger'[h].status>> = <<"QUEUED", "FAILED">>
                 /\ Falsy(DictGet(ledger[h], "sql_text"))]_vars


IsOk(e) == e.ok

AllOk(p) == \A i \in 1..Len(trace[p]) : trace[p][i].ok

StreamEnded(p) == \E i \in 1..Len(trace[p]) : trace[p][i].op = "pull_end"

\* C15: when the engine's stream ends without a batch, the call attempts no
\* part write, the manifest it writes lists no part and has total_parts = 0
\* and total_rows = 0, and, no collaborator failing, the call returns with
\* the ledger COMPLETED and total_rows = 0.
C15_EmptyStreamCompletes ==
    \A p \in Procs :
        (StreamEnded(p) /\ frame[p].emitted = <<>>) =>
            /\ Events(p, IsPartWrite) = <<>>
            /\ \A i \in 1..Len(trace[p]) :
                   IsManifestWrite(trace[p][i]) =>
                       /\ trace[p][i].obj.manifest.parts = <<>>
                       /\ trace[p][i].obj.manifest.total_parts = 0
                       /\ trace[p][i].obj.manifest.total_rows = 0
            /\ (Done(p) /\ AllOk(p)) =>
                   /\ result[p] = Returned
                   /\ WroteManifest(p)
                   /\ ledger[Handle(p)].status = "COMPLETED"
                   /\ ledger[Handle(p)].total_rows = 0

C15_Witness ==
    \E p \in Procs :
        /\ Done(p) /\ result[p] = Returned
        /\ StreamEnded(p) /\ frame[p].emitted = <<>>
        /\ Manifest(p).total_parts = 0
        /\ ledger[Handle(p)].total_rows = 0

\* the estimate stays below the threshold after every batch of the stream
NeverReachesThreshold(emitted) ==
    \A k \in 1..Len(emitted) :
        _estimate_table_bytes(SubSeq(emitted, 1, k)) < SIZE_THRESHOLD_BYTES

Part0Path(h) == <<"gs://", Bucket, h, <<"part_", <<0, 0, 0, 0>>, ".parquet">> >>

\* C16: a call that ended without a collaborator failing, over a non-empty
\* stream whose buffered estimate never reached the threshold, wrote exactly
\* one part, part_0000.parquet, holding all the batches; its manifest has
\* total_parts = 1 and total_rows = the rows emitted; the ledger is COMPLETED.
C16_SingleRemainderPart ==
    \A p \in Procs :
        (/\ Done(p) /\ AllOk(p) /\ StreamEnded(p)
         /\ frame[p].emitted # <<>>
         /\ NeverReachesThreshold(frame[p].emitted)) =>
            LET w == Events(p, IsPartWrite)
            IN /\ Len(w) = 1
               /\ w[1].path = Part0Path(Handle(p))
               /\ w[1].obj.batches = frame[p].emitted
               /\ store[w[1].path].batches = frame[p].emitted
               /\ Manifest(p).total_parts = 1
               /\ Manifest(p).parts[1].rows = SumNumRows(frame[p].emitted)
               /\ Manifest(p).total_rows = SumNumRows(frame[p].emitted)
               /\ result[p] = Returned
               /\ ledger[Handle(p)].status = "COMPLETED"

C16_Witness ==
    \E p \in Procs :
        /\ Done(p) /\ AllOk(p) /\ result[p] = Returned
        /\ Len(frame[p].emitted) = 3
        /\ NeverReachesThreshold(frame[p].emitted)
        /\ Len(Events(p, IsPartWrite)) = 1
        /\ Manifest(p).total_rows = 6

\* every batch alone is at or above the threshold
EachBatchFillsAPart(emitted) ==
    \A k \in 1..Len(emitted) :
        _estimate_table_bytes(<<emitted[k]>>) >= SIZE_THRESHOLD_BYTES

\* C17: while every batch emitted is alone at or above the threshold, the
\* i-th part write holds exactly batch i and goes to index i-1; a call that
\* ended without a collaborator failing wrote as many parts as batches, the
\* manifest lists the rows of batch i for part i, and the ledger is COMPLETED.
C17_OnePartPerBatch ==
    \A p \in Procs :
        EachBatchFillsAPart(frame[p].emitted) =>
            LET w == Events(p, IsPartWrite)
            IN /\ Len(w) <= Len(frame[p].emitted)
               /\ \A i \in 1..Len(w) :
                      /\ w[i].obj.batches = <<frame[p].emitted[i]>>
                      /\ w[i].path = GcsPath(Bucket, Handle(p), PartName(i - 1))
               /\ (Done(p) /\ AllOk(p) /\ StreamEnded(p)) =>
                      /\ Len(w) = Len(frame[p].emitted)
                      /\ Manifest(p).total_parts = Len(frame[p].emitted)
                      /\ \A i \in 1..Len(w) :
                             Manifest(p).parts[i].rows = frame[p].emitted[i].num_rows
                      /\ result[p] = Returned
                      /\ ledger[Handle(p)].status = "COMPLETED"

C17_Witness ==
    \E p \in Procs :
        /\ Done(p) /\ AllOk(p) /\ result[p] = Returned
        /\ Len(frame[p].emitted) = 3
        /\ EachBatchFillsAPart(frame[p].emitted)
        /\ Len(Events(p, IsWrittenPart)) = 3
        /\ Manifest(p).parts[3].path = GcsPath(Bucket, Handle(p), PartName(2))


\* the stream is what the engine yields for N > 0 rows in batches of b rows:
\* every batch but the last has b rows, the last has between 1 and b
ChunkedBy(emitted, b) ==
    /\ emitted # <<>>
    /\ \A k \in 1..(Len(emitted) - 1) : emitted[k].num_rows = b
    /\ emitted[Len(emitted)].num_rows \in 1..b

\* C18 (as claimed): a result of N rows executed with batch size b is written
\* as ceil(N / b) parts of at most b rows each, named part_0000.parquet,
\* part_0001.parquet, ... in that order.
C18_PartsOfBatchSizeRows ==
    \A p \in Procs :
        (Done(p) /\ AllOk(p) /\ StreamEnded(p)) =>
            \A b \in {frame[p].emitted[k].num_rows : k \in 1..Len(frame[p].emitted)} :
                ChunkedBy(frame[p].emitted, b) =>
                    LET N == SumNumRows(frame[p].emitted)
                        w == Events(p, IsPartWrite)
                    IN /\ Len(w) = (N + b - 1) \div b
                       /\ \A i \in 1..Len(w) :
                              /\ SumNumRows(w[i].obj.batches) <= b
                              /\ w[i].path = GcsPath(Bucket, Handle(p), PartName(i - 1))

\* the size estimates of the parts written, summed
RECURSIVE SumEstimates(_)
SumEstimates(writes) ==
    IF writes = <<>> THEN 0
    ELSE _estimate_table_bytes(Head(writes).obj.batches) + SumEstimates(Tail(writes))

\* what the COMPLETED update of p's call left in the ledger equals the
\* manifest the call wrote, with the engine telemetry, and its
\* total_size_estimate covers every part written, the final one included
CompletedMatchesManifest(p) ==
    LET d == ledger[Handle(p)]
        mw == Events(p, IsWrittenManifest)[1]
    IN /\ d.total_rows = mw.obj.manifest.total_rows
       /\ d.columns = mw.obj.manifest.columns
       /\ d.total_size_estimate = mw.obj.manifest.total_size_estimate
       /\ d.result_manifest = mw.path
       /\ d.telemetry = Telemetry
       /\ d.total_size_estimate = SumEstimates(Events(p, IsWrittenPart))

\* C19 (as claimed): the COMPLETED update carries the manifest's total_rows,
\* columns, total_size_estimate and path, and the telemetry; its
\* total_size_estimate includes the final part and is greater than 0 for
\* every result with at least one row.
C19_CompletedTotalsPositive ==
    \A p \in Procs :
        Events(p, IsAcceptedCompleted) # <<>> =>
            /\ CompletedMatchesManifest(p)
            /\ SumNumRows(frame[p].emitted) > 0 =>
                   ledger[Handle(p)].total_size_estimate > 0

\* C19 (amended): the COMPLETED update carries the manifest's total_rows,
\* columns, total_size_estimate and path, and the telemetry; its
\* total_size_estimate is the sum of the estimates of all parts, the final
\* one included, and is greater than 0 exactly when some batch emitted has a
\* buffer of non-zero size.
C19_CompletedTotals ==
    \A p \in Procs :
        Events(p, IsAcceptedCompleted) # <<>> =>
            /\ CompletedMatchesManifest(p)
            /\ ledger[Handle(p)].total_size_estimate > 0 <=>
                   _estimate_table_bytes(frame[p].emitted) > 0

C19_Witness ==
    \E p \in Procs :
        /\ Done(p) /\ result[p] = Returned
        /\ WroteManifest(p)
        /\ Len(Manifest(p).parts) = 2
        /\ Manifest(p).parts[2].approx_size \in 1..(SIZE_THRESHOLD_BYTES - 1)
        /\ ledger[Handle(p)].total_size_estimate =
               Manifest(p).parts[1].approx_size + Manifest(p).parts[2].approx_size
        /\ ledger[Handle(p)].total_rows = 5


\* the number a sequence of decimal digits writes
RECURSIVE DigitsValue(_)
DigitsValue(ds) ==
    IF ds = <<>> THEN 0
    ELSE 10 * DigitsValue(SubSeq(ds, 1, Len(ds) - 1)) + ds[Len(ds)]

\* path is {bucket}/{handle}/part_{i:04d}.parquet
IsPartPathOf(path, h, i) ==
    /\ Len(path) = 4
    /\ path[1] = "gs://" /\ path[2] = Bucket /\ path[3] = h
    /\ Len(path[4]) = 3
    /\ path[4][1] = "part_" /\ path[4][3] = ".parquet"
    /\ Len(path[4][2]) = 4
    /\ \A k \in 1..4 : path[4][2][k] \in 0..9
    /\ DigitsValue(path[4][2]) = i

\* C20: the part write of index i goes to {bucket}/{handle}/part_{i:04d}.parquet
\* and the manifest write to {bucket}/{handle}/manifest.json; the path a
\* manifest records for its i-th part is the path that part was written to,
\* and the part writes of one call go to pairwise distinct paths.
C20_PathsOfPartsAndManifest ==
    \A p \in Procs :
        LET w == Events(p, IsPartWrite)
            written == Events(p, IsWrittenPart)
        IN /\ \A i \in 1..Len(w) : IsPartPathOf(w[i].path, Handle(p), i - 1)
           /\ \A i, j \in 1..Len(w) : i # j => w[i].path # w[j].path
           /\ \A k \in 1..Len(trace[p]) :
                  IsManifestWrite(trace[p][k]) =>
                      LET m == trace[p][k].obj.manifest
                      IN /\ trace[p][k].path =
                                <<"gs://", Bucket, Handle(p), <<"manifest.json">> >>
                         /\ Len(m.parts) = Len(written)
                         /\ \A i \in 1..Len(m.parts) :
                                /\ m.parts[i].path = written[i].path
                                /\ m.parts[i].path \in DOMAIN store

C20_Witness ==
    \E p \in Procs :
        /\ Done(p) /\ WroteManifest(p)
        /\ Len(Manifest(p).parts) = 3
        /\ IsPartPathOf(Manifest(p).parts[3].path, Handle(p), 2)
        /\ Handle(p) = "h2"


\* C21 (as claimed): in every ledger state a job record has an error field
\* only when its status is FAILED, also after a handle is executed again.
C21_ErrorOnlyWhenFailed ==
    \A h \in DOMAIN ledger :
        "error" \in DOMAIN ledger[h] => ledger[h].status = "FAILED"


\* the payload an accepted update of p's call carried
PayloadOf(p, e) ==
    CASE e.status = "EXECUTING" -> ExecutingPayload
      [] e.status = "COMPLETED" -> CompletedPayload(frame[p], Bucket)
      [] OTHER -> [status |-> "FAILED", error |-> e.error[1],
                   updated_at |-> SERVER_TIMESTAMP, finished_at |-> SERVER_TIMESTAMP]

IsAcceptedUpdate(e) == e.op = "update" /\ e.ok

\* the record a job has after the accepted updates of p's call alone
RECURSIVE Replay(_, _, _)
Replay(p, doc, updates) ==
    IF updates = <<>> THEN doc
    ELSE Replay(p, Merge(doc, PayloadOf(p, Head(updates))), Tail(updates))

\* p took this step
Stepped(p) == pc'[p] # pc[p]

\* the objects under the prefix of handle h
Under(st, h) == {q \in DOMAIN st : q[3] = h}

\* the record of p's job is what the accepted updates of p's call produce
\* from the initial record, and the objects under its prefix are those its
\* call wrote
ProducedAlone(p) ==
    LET h == Handle(p)
        w == Events(p, IsWrite)
    IN pc[p] # "idle" =>
           /\ h \in DOMAIN ledger =>
                  ledger[h] = Replay(p, InitialLedger[h], Events(p, IsAcceptedUpdate))
           /\ Under(store, h) = {w[i].path : i \in {j \in 1..Len(w) : w[j].ok}}
           /\ \A i \in 1..Len(w) : w[i].ok => store[w[i].path] = w[i].obj

\* C22: for calls on distinct handles interleaved at every collaborator call,
\* a step of one call changes only the record of its own handle, only the
\* objects under its own prefix and only its own locals, and at every moment
\* a job's record and objects are those its own call's updates and writes
\* produce alone.
C22_DistinctJobsIndependent ==
    [][/\ \A p \in Procs : Stepped(p) =>
              /\ \A h \in DOMAIN ledger : h # Handle(p)' => ledger'[h] = ledger[h]
              /\ \A q \in DOMAIN store' :
                     q[3] # Handle(p)' => (q \in DOMAIN store /\ store'[q] = store[q])
              /\ \A o \in Procs \ {p} :
                     /\ frame'[o] = frame[o] /\ trace'[o] = trace[o]
                     /\ pc'[o] = pc[o] /\ result'[o] = result[o]
       /\ \A p \in Procs : ProducedAlone(p)'
      ]_vars

C22_Witness ==
    /\ Done(1) /\ Done(2)
    /\ result[1] = Returned /\ result[2] = Returned
    /\ Handle(2) = "h2"
    /\ Len(frame[1].parts) = 2 /\ Len(frame[2].parts) = 1
    /\ ledger["h1"].total_rows = 3 /\ ledger["h2"].total_rows = 1


IsOpen(e) == e.op = "open"

\* C23: in a call the engine is opened at most once, no path is the target
\* of two write attempts, and after the first collaborator call that fails
\* the call makes no engine call and no write: at most one more call, the
\* FAILED update.
C23_NoRetry ==
    \A p \in Procs :
        /\ Len(Events(p, IsOpen)) <= 1
        /\ LET w == Events(p, IsWrite)
           IN \A i, j \in 1..Len(w) : i # j => w[i].path # w[j].path
        /\ \A i \in 1..Len(trace[p]) :
               ~trace[p][i].ok =>
                   /\ Len(trace[p]) <= i + 1
                   /\ \A j \in (i + 1)..Len(trace[p]) : IsFailedUpdate(trace[p][j])

C23_Witness ==
    \E p \in Procs :
        /\ Done(p)
        /\ Len(Events(p, IsWrittenPart)) = 1
        /\ Len(Events(p, IsPartWrite)) = 2
        /\ ~trace[p][Len(trace[p]) - 1].ok
        /\ IsFailedUpdate(trace[p][Len(trace[p])])
        /\ result[p] = Raised(WriteError(trace[p][Len(trace[p]) - 1].path))


\* all of a sequence but its last element
Front(s) == SubSeq(s, 1, Len(s) - 1)

\* C29: the parts written so far, concatenated in index order, followed by
\* the batches still buffered, are the batches the engine emitted, in arrival
\* order; the buffer is empty right after a flush; and once the manifest is
\* written the parts alone reproduce the engine's batch sequence, each batch
\* in one part.
C29_BatchesPartitioned ==
    \A p \in Procs :
        LET written == Events(p, IsWrittenPart)
        IN /\ pc[p] \in {"pull", "flush", "last_part"} =>
                  ConcatBatches(written) \o frame[p].buffered_batches = frame[p].emitted
           /\ (/\ pc[p] = "pull" /\ trace[p] # <<>>
               /\ IsWrittenPart(trace[p][Len(trace[p])])) =>
                  frame[p].buffered_batches = <<>>
           /\ \A i \in 1..Len(written) : written[i].obj.batches # <<>>
           /\ WroteManifest(p) =>
                  /\ ConcatBatches(written) = frame[p].emitted
                  /\ Len(Manifest(p).parts) = Len(written)
                  /\ \A i \in 1..Len(written) :
                         /\ store[Manifest(p).parts[i].path].batches = written[i].obj.batches
                         /\ Manifest(p).parts[i].rows = SumNumRows(written[i].obj.batches)

C29_Witness ==
    \E p \in Procs :
        /\ Done(p) /\ WroteManifest(p)
        /\ Len(Events(p, IsWrittenPart)) = 2
        /\ Len(Events(p, IsWrittenPart)[1].obj.batches) = 2
        /\ Events(p, IsWrittenPart)[1].obj.batches[1] # Events(p, IsWrittenPart)[1].obj.batches[2]
        /\ Len(frame[p].emitted) = 3

\* C30: whenever the loop is about to pull the next batch the estimate of
\* the buffered batches is strictly below the threshold, and a part is
\* flushed exactly when the batch just appended brought the estimate to the
\* threshold or above (the batches before it alone were below it).
C30_FlushAtFirstCrossing ==
    \A p \in Procs :
        /\ pc[p] = "pull" =>
               _estimate_table_bytes(frame[p].buffered_batches) < SIZE_THRESHOLD_BYTES
        /\ pc[p] = "flush" =>
               /\ _estimate_table_bytes(frame[p].buffered_batches) >= SIZE_THRESHOLD_BYTES
               /\ _estimate_table_bytes(Front(frame[p].buffered_batches)) < SIZE_THRESHOLD_BYTES
        /\ \A i \in 1..Len(trace[p]) :
               (IsPartWrite(trace[p][i]) /\ trace[p][i - 1].op = "pull") =>
                   /\ _estimate_table_bytes(trace[p][i].obj.batches) >= SIZE_THRESHOLD_BYTES
                   /\ _estimate_table_bytes(Front(trace[p][i].obj.batches)) < SIZE_THRESHOLD_BYTES

C30_Witness ==
    \E p \in Procs :
        /\ pc[p] = "pull"
        /\ Len(Events(p, IsWrittenPart)) = 1
        /\ _estimate_table_bytes(Events(p, IsWrittenPart)[1].obj.batches) = SIZE_THRESHOLD_BYTES
        /\ Len(frame[p].buffered_batches) = 1


\* the secret id that holds the public half of a kid on day d of November 2025
PublicIdOn(kid, d) ==
    IF kid = DateKid THEN <<DateKid, "public">>
    ELSE << <<"2", "0", "2", "5", "1", "1", "2", DigitChars[d - 20 + 1]>>, "public" >>

\* the last event of the key store log
LastKeyEvent == keylog[Len(keylog)]

\* C27: every step of a load_public_key call leaves the secret backend as it
\* was (no secret created, no version added), for every kid; when the secret
\* of the kid does not exist the listing ends the call, which returns None,
\* or lets out the error of the backend when the listing failed with one that
\* is no GoogleAPICallError.
C27_LoadPublicKeyReadsOnly ==
    [][\A t \in Procs :
        (/\ keycall'[t] # keycall[t]
         /\ keycall[t].op = "load_public_key" \/ keycall'[t].op = "load_public_key") =>
            /\ secrets' = secrets
            /\ (/\ keycall[t].op = "load_public_key"
                /\ keycall[t].pc = "list"
                /\ keycall[t].pub_secret_id \notin DOMAIN secrets) =>
                   /\ keycall'[t] = NoCall
                   /\ LastKeyEvent'.ev = "return"
                   /\ LastKeyEvent'.op = "load_public_key"
                   /\ LastKeyEvent'.value = <<>>
                   /\ LastKeyEvent'.raised => ~LastKeyEvent'.ok]_vars

C27_Witness ==
    \E i \in 1..Len(keylog) :
        /\ keylog[i].ev = "return"
        /\ keylog[i].op = "load_public_key" /\ keylog[i].ok
        /\ keylog[i].kid = TextKid
        /\ keylog[i].value = <<>>
        /\ keylog[i].day = FirstDay + 1
        /\ PublicIdOn(TextKid, FirstDay) \in DOMAIN secrets
        /\ PublicIdOn(TextKid, FirstDay + 1) \notin DOMAIN secrets

\* the call event of the return event at index i of the key store log
CallOf(i) ==
    CHOOSE k \in 1..(i - 1) :
        /\ keylog[k].ev = "call" /\ keylog[k].t = keylog[i].t
        /\ \A m \in (k + 1)..(i - 1) : keylog[m].t # keylog[i].t

IsStoreOf(e, kid) == e.op = "store_key" /\ e.kid = kid

\* no store_key of the kid is under way at event a, and none is called or
\* returns between the events a and c
StoreQuiet(kid, a, c) ==
    /\ \A k \in (a + 1)..(c - 1) : ~IsStoreOf(keylog[k], kid)
    /\ \A k \in 1..(a - 1) :
           (IsStoreOf(keylog[k], kid) /\ keylog[k].ev = "call") =>
               \E r \in (k + 1)..a : keylog[r].ev = "return" /\ keylog[r].t = keylog[k].t

\* C28 (as claimed): after store_key(kid, priv_pem, pub_pem) returned normally,
\* a load_key(kid) called after that which reaches the backend, with no other
\* store_key of the kid under way or in between and before the key expires,
\* returns (priv_pem, pub_pem), for a kid that is a date and for one that is
\* not, the same or a later day.
C28_StoreThenLoad ==
    \A a, c \in 1..Len(keylog) :
        (/\ keylog[a].ev = "return" /\ keylog[a].op = "store_key"
         /\ keylog[a].ok /\ ~keylog[a].raised
         /\ keylog[c].ev = "return" /\ keylog[c].op = "load_key" /\ keylog[c].ok
         /\ keylog[c].kid = keylog[a].kid
         /\ a < CallOf(c)
         /\ keylog[c].day < keylog[CallOf(a)].day + 4
         /\ StoreQuiet(keylog[a].kid, a, c)) =>
            keylog[c].value = keylog[a].arg


\* process_statement was invoked for p's request
Invoked(p) == pc[p] # "idle"

\* validate_token returned claims for p's request
TokenAccepted(p) ==
    \/ http[p] \in {"body", "invoke", "running"}
    \/ http[p] = "responded" /\ Invoked(p)
    \/ http[p] = "responded" /\ response[p].kind = "http_exception" /\ response[p].status = 400

\* the headers that carry a bearer token: "bearer" in each of its casings,
\* a space, and a token that is not empty
BearerCasings ==
    { <<b, e1, a, r1, e2, r2>> : b \in {"b", "B"}, e1 \in {"e", "E"}, a \in {"a", "A"},
                                 r1 \in {"r", "R"}, e2 \in {"e", "E"}, r2 \in {"r", "R"} }

\* a public key stored under the kid verifies the signature made with priv
SignedForKid(priv, kid) ==
    \E id \in DOMAIN secrets : \E i \in DOMAIN secrets[id] :
        /\ secrets[id][i].kid = kid
        /\ \E pair \in KeyPairs : pair.priv = priv /\ pair.pub = secrets[id][i].pem

\* the request carries a bearer token whose header names a kid, that was
\* signed with the private half of a key stored under that kid, has not
\* expired and has the GPC subject
BearsValidatedToken(req) ==
    /\ req.authorization # <<>>
    /\ req.authorization[1].scheme \in BearerCasings
    /\ req.authorization[1].space
    /\ req.authorization[1].credentials # <<>>
    /\ LET t == req.authorization[1].credentials[1]
       IN /\ t.header_ok
          /\ t.kid # <<>>
          /\ SignedForKid(t.signed_with, t.kid[1])
          /\ ~t.expired
          /\ "sub" \in DOMAIN t.claims
          /\ t.claims.sub = "109805708368864229943"

HasExecutionId(req) ==
    "execution_id" \in DOMAIN req.body /\ req.body.execution_id # ""

\* C24 (as claimed): submit invokes process_statement only for a request
\* whose bearer token was validated with the GPC subject and whose body has a
\* non-empty execution_id, and invokes it on that execution id; a request
\* with no token, an invalid token or another sub is answered with an
\* HTTPException, of status 401, and process_statement is never invoked for
\* it.
C24_InvokedOnlyWhenAuthenticated ==
    \A p \in Procs :
        http[p] # "direct" =>
            /\ Invoked(p) =>
                   /\ BearsValidatedToken(request[p])
                   /\ HasExecutionId(request[p])
                   /\ Handle(p) = request[p].body.execution_id
            /\ (http[p] = "responded" /\ ~BearsValidatedToken(request[p])) =>
                   /\ response[p].kind = "http_exception"
                   /\ response[p].status = 401
                   /\ ~Invoked(p)
                   /\ trace[p] = <<>>
                   /\ ledger = InitialLedger

\* C25 (as claimed): validate_token returns claims only for a token whose aud
\* is the expected audience and whose iss is the expected issuer; auth.py
\* names neither, and the audience and the issuer the tests expect to be
\* refused are not the expected ones.
C25_AudienceAndIssuerChecked ==
    \A p \in Procs :
        (http[p] # "direct" /\ TokenAccepted(p)) =>
            LET t == request[p].authorization[1].credentials[1]
            IN /\ DictGet(t.claims, "aud") # <<WrongAudience>>
               /\ DictGet(t.claims, "iss") # <<WrongIssuer>>

\* C26 (as claimed): submit called with a valid token and a body
\* {"statementHandle": h} returns a body with accepted = true, job = h and
\* jwt_sub = the token's subject (the secret backend having answered the
\* lookup of the key).
C26_AcceptedBody ==
    \A p \in Procs :
        (/\ http[p] = "responded"
         /\ BearsValidatedToken(request[p])
         /\ request[p].authorization[1].credentials[1] = ValidToken
         /\ response[p] \notin {Raised(BackendError),
                               HTTPException(401, "Public key not found for kid")}
         /\ "statementHandle" \in DOMAIN request[p].body) =>
            /\ response[p].kind = "returned"
            /\ response[p].body =
                   << [accepted |-> TRUE,
                       job |-> request[p].body.statementHandle,
                       jwt_sub |-> request[p].authorization[1].credentials[1].claims.sub] >>


IsAcceptedExecuting(e) == e.op = "update" /\ e.ok /\ e.status = "EXECUTING"

\* C31: in a call every engine call (open, pull, end of stream) and every
\* part or manifest write comes after an EXECUTING update of that call which
\* the ledger accepted, and the job's record then no longer says QUEUED.
C31_ExecutingFirst ==
    \A p \in Procs :
        \A i \in 1..Len(trace[p]) :
            (IsEngineCall(trace[p][i]) \/ IsWrite(trace[p][i])) =>
                /\ \E j \in 1..(i - 1) : IsAcceptedExecuting(trace[p][j])
                /\ ledger[Handle(p)].status # "QUEUED"

C31_Witness ==
    \E p \in Procs :
        /\ pc[p] = "pull"
        /\ ledger[Handle(p)].status = "EXECUTING"
        /\ "started_at" \in DOMAIN ledger[Handle(p)]
        /\ Len(Events(p, IsWrittenPart)) = 1
        /\ store = [q \in {Events(p, IsWrittenPart)[1].path} |-> Events(p, IsWrittenPart)[1].obj]


\* C32 (as claimed): once the ledger accepted the COMPLETED update of a call,
\* the call makes no further ledger update, and when it has ended it has
\* returned normally with the job still COMPLETED, also when the audit
\* logging after the update failed.
C32_CompletedThenQuiet ==
    \A p \in Procs :
        \A i \in 1..Len(trace[p]) :
            IsAcceptedCompleted(trace[p][i]) =>
                /\ \A j \in (i + 1)..Len(trace[p]) : ~IsUpdate(trace[p][j])
                /\ Done(p) =>
                       /\ result[p] = Returned
                       /\ ledger[Handle(p)].status = "COMPLETED"


\* C33: a call that fetched a job with a non-empty sql_text goes on to the
\* EXECUTING update whatever the job's status is; once the ledger accepted
\* it the status is EXECUTING, and the parts and the manifest it then writes
\* go to the same paths as in any call and replace what was stored there.
C33_ReprocessesUnconditionally ==
    \A p \in Procs :
        (/\ pc[p] \notin {"idle", "get"}
         /\ trace[p] # <<>>
         /\ trace[p][1].ok
         /\ Handle(p) \in DOMAIN ledger
         /\ ~Falsy(DictGet(ledger[Handle(p)], "sql_text"))) =>
            /\ pc[p] = "set_executing" \/ Len(trace[p]) >= 2
            /\ Len(trace[p]) >= 2 => IsExecutingUpdate(trace[p][2])
            /\ pc[p] = "connect" => ledger[Handle(p)].status = "EXECUTING"
            /\ LET w == Events(p, IsPartWrite)
               IN \A i \in 1..Len(w) :
                      /\ w[i].path = GcsPath(Bucket, Handle(p), PartName(i - 1))
                      /\ w[i].ok => store[w[i].path] = w[i].obj
            /\ WroteManifest(p) =>
                   store[GcsPath(Bucket, Handle(p), ManifestName)].manifest = Manifest(p)

C33_Witness ==
    \E p \in Procs :
        /\ execs = 2
        /\ pc[p] = "set_completed"
        /\ Handle(p) = "h1"
        /\ ledger["h1"].status = "EXECUTING"
        /\ "result_manifest" \in DOMAIN ledger["h1"]
        /\ ledger["h1"].total_rows = 3
        /\ Manifest(p).total_rows = 1


\* the part objects stored under handle h
StoredParts(st, h) == {q \in Under(st, h) : st[q].kind = "parquet"}

\* C34 (as claimed): when the last call on a handle has ended COMPLETED, the
\* manifest stored at manifest.json lists exactly the part objects stored
\* under the handle's prefix, each of them written by that call, and the
\* ledger's total_rows equals the manifest's total_rows.
C34_ManifestListsStoredParts ==
    \A p \in Procs :
        (/\ Done(p)
         /\ result[p] = Returned
         /\ Handle(p) \in DOMAIN ledger
         /\ ledger[Handle(p)].status = "COMPLETED") =>
            LET h == Handle(p)
                m == store[GcsPath(Bucket, h, ManifestName)].manifest
                w == Events(p, IsWrittenPart)
            IN /\ StoredParts(store, h) = {m.parts[i].path : i \in 1..Len(m.parts)}
               /\ \A q \in StoredParts(store, h) :
                      \E i \in 1..Len(w) : w[i].path = q /\ store[q] = w[i].obj
               /\ ledger[h].total_rows = m.total_rows


\* C35: submit responds only after the process_statement call it made has
\* ended; when submit returned normally the call returned and the ledger
\* status of the execution id is COMPLETED or FAILED, and when the call
\* raised, submit raised that same exception and gave no success response.
C35_RespondsAfterTheCall ==
    \A p \in Procs :
        (http[p] = "responded" /\ Invoked(p)) =>
            /\ Done(p)
            /\ response[p].kind = "returned" =>
                   /\ result[p] = Returned
                   /\ request[p].body.execution_id \in DOMAIN ledger
                   /\ ledger[request[p].body.execution_id].status \in Terminal
            /\ result[p] # Returned =>
                   response[p] = [kind |-> "raised", exc |-> result[p].exc]

C35_Witness ==
    \E p \in Procs :
        /\ http[p] = "responded"
        /\ response[p].kind = "returned"
        /\ request[p].body.execution_id = "h1"
        /\ ledger["h1"].status = "COMPLETED"
        /\ Len(Events(p, IsWrittenPart)) = 1


IsEmitted(e) == e.outcome = "ok"

\* C36 (as claimed): for every request the middleware has dealt with, exactly
\* one audit record was emitted, after the handler ended, whether it returned
\* or raised; a response was given to the client and the record's status is
\* the status of that response: the handler's status, or for an exception its
\* status_code when it has one and 500 otherwise.
C36_OneAuditRecord ==
    \A p \in Procs :
        client[p] # NoClient =>
            LET recs == SelectSeq(audited[p], IsEmitted)
            IN /\ http[p] = "responded"
               /\ Len(recs) = 1
               /\ client[p].kind = "response"
               /\ recs[1].payload.status = <<client[p].status>>
               /\ client[p].status =
                      (IF response[p].kind \in {"returned", "http_exception"}
                       THEN response[p].status ELSE 500)

====
